---- MODULE Spec2Model ----
(***************************************************************************)
(* Connector subsystem of scenario-tracker.                                *)
(*                                                                         *)
(* The repository carries three implementations of the connector system:   *)
(*   - components/connector/ConnectorManager.js  (impl = "ConnectorManager")*)
(*   - connectors.js                              (impl = "connectors")    *)
(*   - controllers/ConnectionController.js with the LayoutController       *)
(*                                                (impl = "ConnectionController") *)
(* A running page loads exactly one of them; Init chooses which, and the   *)
(* actions of an implementation are enabled only when it is the one loaded.*)
(***************************************************************************)
EXTENDS Integers, Sequences, FiniteSets, TLC

\* ------------------------------------------------------------------ bounds

\* Cap on the line counter (ids line-1 .. line-MaxLineCounter are issued).
MaxLineCounter == 2

\* Cap on the number of line elements without a data-id that the SVG layer
\* holds at once (the provisional line of the active drawing and provisional
\* lines that lost their drawing record).
MaxTempLines == 2

\* Cap on the occupied dots of one side handed to _calculateNewDotPositions.
MaxOccupied == 3

\* Cap on the card elements of the workspace (a failed load leaves the cards
\* it built under the default cards).
MaxDomCards == 5

\* Cap on the dots of one card element (four of the template, the rest
\* generated).
MaxDots == 9

\* Cap on the connections the state manager holds.
MaxConnections == 2

\* The ids ConnectionModel.generateId can return are 1..MaxConnId.
MaxConnId == 2

\* The dots one card holds when the generator is run on its own.
MaxEdgeDots == 12

\* ------------------------------------------------------- program constants

CARD_WIDTH == 350
CARD_HEIGHT == 250
GRID_GAP == 24
GRID_COLUMNS == 3
HEADER_OFFSET == 48 + 8
CONNECTOR_SNAP_DISTANCE == 24
SNAP == 24

\* Sub-pixel resolution of the coordinates: one pixel is SubPx units, so that
\* the centre of a dot placed at a fraction of a card edge is an integer.
SubPx == 4 * 4

\* Side indices of the dots (types/index.js, DotSide).
TOP == 0
RIGHT == 1
BOTTOM == 2
LEFT == 3
TOP_LEFT == 4
TOP_RIGHT == 5
BOTTOM_RIGHT == 6
BOTTOM_LEFT == 7

\* The cards on the page (the first three scenarios of the default grid).
Cards == {1, 2, 3}

\* ConnectionModel.generateId(): `conn-${Date.now()}-${random}`, any of these.
ConnIds == 1..MaxConnId

\* ------------------------------------------------------------------ state

VARIABLES
  impl,          \* which implementation the page runs
  endpoints,     \* ConnectorManager.js / connectors.js: every dot of every card, in registration order
  lines,         \* ConnectorManager.js / connectors.js: every stored connection, in creation order
  lineCounter,   \* ConnectorManager.js / connectors.js: counter behind the ids line-N
  activeDrawing, \* the drawing in progress (connectors.js: drawing), or none
  svgLines,      \* SVG layer: data-ids of the line elements that carry one, with their coordinates
  svgTemp,       \* SVG layer: number of line elements without a data-id (provisional lines)
  last,          \* history: name of the operation that produced this state
  probe,         \* a call of the snap resolver on its own: its arguments and what it returned
  dom,           \* ConnectionController.js: the card elements of the workspace with their dots
  _dots,         \* ConnectionController.js: this._dots, the dots registered per card id
  connections,   \* ConnectionController.js: the connections of the state manager
  cards,         \* ConnectionController.js: the card ids of the state manager
  storedLayout,  \* LayoutController: the layout in localStorage
  _lastConnectionUpdateTime,  \* CardController.js: this._lastConnectionUpdateTime, in ms
  dragged,       \* CardController.js: the scenario of the card whose move and endDrag listeners are installed, 0 for none
  pc,            \* main.js / AppController: the statement of the start-up the application is at
  _events,       \* EventBus: this._events, the callbacks of each event in the order of their registration
  delivered,     \* the callbacks the emits so far have called, in the order of the calls
  dialogWired,   \* ConnectionController._setupDOMEvents has put the click listeners on the Remove and Close buttons
  heap,          \* the objects of the state manager's state: the object at each address, key by key
  _state,        \* StateManager: this._state, the address of the root object
  _subscribers,  \* StateManager: this._subscribers, as the subscriptions (id, path) in the order of their ids
  _nextSubscriberId,  \* StateManager: this._nextSubscriberId
  notified,      \* the subscription ids whose callbacks the latest setState called, in the order of the calls
  buckets,       \* Logger.buckets, the buckets (key, count, level, lastMessage, lastTime) in the order the Map holds them
  logHistory,    \* Logger.logHistory, an entry per message put out, repeated being the N of a '(repeated N times)' summary and 0 otherwise
  dateNow,       \* Date.now(), in ms
  suppressed     \* per bucket key, the log calls so far that returned without output because the message was bucketed

\* The variables of ConnectorManager.js / connectors.js and those of the
\* controllers.
cmVars == <<endpoints, lines, lineCounter>>

ccVars == <<dom, _dots, connections, cards, storedLayout, _lastConnectionUpdateTime, dragged>>

\* The variables of the state manager as an object store.
stateVars == <<heap, _state, _subscribers, _nextSubscriberId, notified>>

\* The variables of the logger of layout.ts.
loggerVars == <<buckets, logHistory, dateNow, suppressed>>

\* The variables of the event bus, of the start-up, of the state manager and
\* of the logger.
coreVars == <<pc, _events, delivered, dialogWired, stateVars, loggerVars>>

vars == <<impl, endpoints, lines, lineCounter, activeDrawing, svgLines, svgTemp, last, probe,
          dom, _dots, connections, cards, storedLayout, _lastConnectionUpdateTime, dragged,
          pc, _events, delivered, dialogWired, heap, _state, _subscribers, _nextSubscriberId,
          notified, buckets, logHistory, dateNow, suppressed>>

\* The subscriptions the constructors and initialize methods of the
\* controllers leave in the event bus.
startedEvents ==
  [event \in {"card:dragstart", "card:dragmove", "card:dragend", "connection:start",
              "connections:update", "dom:initialized"} |->
     IF event = "card:dragstart" THEN <<"_handleCardDragStart">>
     ELSE IF event = "card:dragmove" THEN <<"_handleCardDragMove">>
     ELSE IF event = "card:dragend" THEN <<"_handleCardDragEnd">>
     ELSE IF event = "connection:start" THEN <<"_handleConnectionStart">>
     ELSE IF event = "connections:update" THEN <<"_updateAllConnections">>
     ELSE <<"_setupDOMEvents">>]

\* The keys of the objects of the state and what an absent key reads as.
Keys == {"cards", "1", "host"}

Undefined == [t |-> "undefined", v |-> 0]

\* The object {}.
EmptyObject == [key \in Keys |-> Undefined]

\* new StateManager(): this._state = {}, no subscriber, the first id 1.
InitStateManager ==
  /\ heap = <<EmptyObject>>
  /\ _state = 1
  /\ _subscribers = <<>>
  /\ _nextSubscriberId = 1
  /\ notified = <<>>

\* ------------------------------------------------------------------ Logger

\* LogLevel.
DEBUG == 1

WARN == 3

ERROR == 4

\* DEFAULT_CONFIG: globalLevel WARN, no namespace level and no namespace
\* filter, enableBucketing true, bucketInterval 1000 ms, maxLogEntries 1000.
globalLevel == WARN

enableBucketing == TRUE

bucketInterval == 1000

maxLogEntries == 1000

\* The loggers of the page and the messages they log.
Namespaces == {"app"}

Messages == {"move", "drop"}

\* `${this.namespace}:${message}`.
bucketKey(namespace, message) == <<namespace, message>>

BucketKeys == { bucketKey(namespace, message) : namespace \in Namespaces, message \in Messages }

\* No message logged, no bucket, the clock at its start.
InitLogger ==
  /\ buckets = <<>>
  /\ logHistory = <<>>
  /\ dateNow = 0
  /\ suppressed = [key \in BucketKeys |-> 0]

\* The event bus and the dialog once the application runs; connectors.js and
\* ConnectorManager.js have no event bus.
InitCore ==
  /\ pc = "running"
  /\ _events = IF impl = "ConnectionController" THEN startedEvents ELSE <<>>
  /\ delivered = <<>>
  /\ dialogWired = FALSE
  /\ InitLogger
  /\ InitStateManager

\* ------------------------------------------------------------------ EventBus

\* on(event, callback): the callback is pushed on the array of the event.
on(events, event, callback) ==
  [e \in DOMAIN events \cup {event} |->
     IF e = event
     THEN (IF event \in DOMAIN events THEN Append(events[event], callback) ELSE <<callback>>)
     ELSE events[e]]

\* off(event, callback): the array of the event is replaced by one without
\* the callback, and the key deleted when nothing is left.
off(events, event, callback) ==
  IF event \notin DOMAIN events THEN events
  ELSE IF SelectSeq(events[event], LAMBDA cb: cb # callback) = <<>>
       THEN [e \in DOMAIN events \ {event} |-> events[e]]
       ELSE [events EXCEPT ![event] = SelectSeq(@, LAMBDA cb: cb # callback)]

\* What the callbacks do when called.  Those of the controllers return; of
\* the callbacks of other subscribers, "thrower" throws, "once" unsubscribes
\* itself, "adder" subscribes "late" to the event and "remover" unsubscribes
\* "plain" from it.
Callbacks == {"plain", "thrower", "once", "adder", "remover", "late"}

\* callback(data) for a callback of event: the bus after the call, uncaught
\* telling whether the call threw.
callCallback(bus, event, callback) ==
  [events |-> IF callback = "once" THEN off(bus.events, event, callback)
              ELSE IF callback = "adder" THEN on(bus.events, event, "late")
              ELSE IF callback = "remover" THEN off(bus.events, event, "plain")
              ELSE bus.events,
   delivered |-> Append(bus.delivered, callback),
   uncaught |-> callback = "thrower"]

\* Variant of tryCallback without the catch: the error of the callback leaves
\* the emit.
tryCallback_Rethrow(bus, event, callback) == callCallback(bus, event, callback)

\* try { callback(data) } catch (error) { console.error(...) }.
tryCallback(bus, event, callback) ==
  [callCallback(bus, event, callback) EXCEPT !.uncaught = FALSE]

\* this._events[event].forEach(...) over the array the event had when the
\* emit began: forEach visits the elements the array had at its start, and
\* an error that leaves the function ends the loop.
RECURSIVE forEachCallback(_, _, _, _)
forEachCallback(bus, callbacks, event, k) ==
  IF k > Len(callbacks) \/ bus.uncaught THEN bus
  ELSE forEachCallback(tryCallback(bus, event, callbacks[k]), callbacks, event, k + 1)

\* emit(event, data) on the bus with the subscriptions events.
emit(events, event) ==
  IF event \notin DOMAIN events THEN [events |-> events, delivered |-> <<>>, uncaught |-> FALSE]
  ELSE forEachCallback([events |-> events, delivered |-> <<>>, uncaught |-> FALSE],
                       events[event], event, 1)

\* ---------------------------------------------------------------- helpers

Abs(n) == IF n < 0 THEN -n ELSE n

\* ---------------------------------------------------------------- geometry

\* Default grid position of a card, in pixels (initializeGrid).
CardX(c) == ((c - 1) % GRID_COLUMNS) * (CARD_WIDTH + GRID_GAP)

CardY(c) == HEADER_OFFSET + ((c - 1) \div GRID_COLUMNS) * (CARD_HEIGHT + GRID_GAP)

\* A pointer position or a centre, in sub-pixel units.
Pt(x, y) == [x |-> x * SubPx, y |-> y * SubPx]

\* Math.sqrt(dx*dx + dy*dy) < r for integers in one unit: both sides are
\* non-negative, so the comparison is the one of the squares (the two bounds
\* on |dx| and |dy| keep the squares small).
HypotLess(dx, dy, r) ==
  /\ Abs(dx) < r
  /\ Abs(dy) < r
  /\ dx * dx + dy * dy < r * r

\* Square of the distance between two points; distances are compared on it.
DistSq(a, p) == (a.x - p.x) * (a.x - p.x) + (a.y - p.y) * (a.y - p.y)

\* ------------------------------------------------- dots of a card (Card.js)

\* Positions along an edge are fractions of PosUnit (0.5 is PosUnit \div 2).
PosUnit == 64 * 1000

Half == PosUnit \div 2

\* createConnectorDots: [left, top, side] of the eight dots of a card, in the
\* order they are created, appended to the card and registered.
dotDefinitions ==
  << <<Half, 0, TOP>>, <<PosUnit, Half, RIGHT>>, <<Half, PosUnit, BOTTOM>>, <<0, Half, LEFT>>,
     <<0, 0, TOP_LEFT>>, <<PosUnit, 0, TOP_RIGHT>>, <<PosUnit, PosUnit, BOTTOM_RIGHT>>,
     <<0, PosUnit, BOTTOM_LEFT>> >>

\* The dots of card c as registry entries; dataset.occupied is not set at creation.
createConnectorDots(c) ==
  [i \in 1..Len(dotDefinitions) |->
     [card |-> c, side |-> dotDefinitions[i][3], left |-> dotDefinitions[i][1],
      top |-> dotDefinitions[i][2], occupied |-> "unset"]]

\* registerEndpoints / registerEndPoints: push every dot of the card.
registerEndpoints(registry, c) == registry \o createConnectorDots(c)

\* initializeGrid: createCard for each scenario in order.
RECURSIVE initializeGrid(_, _)
initializeGrid(registry, c) ==
  IF c \notin Cards THEN registry
  ELSE initializeGrid(registerEndpoints(registry, c), c + 1)

\* getElementCenter / center: centre of a dot's bounding rectangle.
getElementCenter(ep) ==
  [x |-> CardX(ep.card) * SubPx + (ep.left * CARD_WIDTH * SubPx) \div PosUnit,
   y |-> CardY(ep.card) * SubPx + (ep.top * CARD_HEIGHT * SubPx) \div PosUnit]

\* ------------------------------------------------------------ snap resolver

\* Variant of findNearestStep without the line
\* `if (endpoint.card === fromEndpoint.card) return;`.
findNearestStep_SameCardToo(registry, acc, i, p, fromCard) ==
  IF DistSq(getElementCenter(registry[i]), p) < acc[2]
  THEN <<i, DistSq(getElementCenter(registry[i]), p)>>
  ELSE acc

\* One step of the forEach of findNearestEndpoint: acc is <<bestEndpoint,
\* bestDistance squared>>, i the index of the endpoint visited.
findNearestStep(registry, acc, i, p, fromCard) ==
  IF registry[i].card = fromCard THEN acc
  ELSE IF DistSq(getElementCenter(registry[i]), p) < acc[2]
       THEN <<i, DistSq(getElementCenter(registry[i]), p)>>
       ELSE acc

RECURSIVE findNearestFrom(_, _, _, _, _)
findNearestFrom(registry, acc, i, p, fromCard) ==
  IF i > Len(registry) THEN acc
  ELSE findNearestFrom(registry, findNearestStep(registry, acc, i, p, fromCard), i + 1, p, fromCard)

\* ConnectorManager.js findNearestEndpoint(x, y, fromEndpoint): index of the
\* endpoint returned, 0 for null.
findNearestEndpoint(registry, p, from) ==
  findNearestFrom(registry,
                  <<0, (CONNECTOR_SNAP_DISTANCE * SubPx) * (CONNECTOR_SNAP_DISTANCE * SubPx)>>,
                  1, p, registry[from].card)[1]

\* Variant of nearestStep comparing with <= once a candidate is held, so that
\* of two equally distant endpoints the one registered later is kept.
nearestStep_LastWins(registry, acc, i, p, skipCard) ==
  IF registry[i].card = skipCard THEN acc
  ELSE IF DistSq(getElementCenter(registry[i]), p) <= acc[2] /\ acc[1] # 0
       THEN <<i, DistSq(getElementCenter(registry[i]), p)>>
       ELSE IF DistSq(getElementCenter(registry[i]), p) < acc[2]
            THEN <<i, DistSq(getElementCenter(registry[i]), p)>>
            ELSE acc

\* One step of the forEach of connectors.js nearestEndpoint(x, y, skip).
nearestStep(registry, acc, i, p, skipCard) ==
  IF registry[i].card = skipCard THEN acc
  ELSE IF DistSq(getElementCenter(registry[i]), p) < acc[2]
       THEN <<i, DistSq(getElementCenter(registry[i]), p)>>
       ELSE acc

RECURSIVE nearestFrom(_, _, _, _, _)
nearestFrom(registry, acc, i, p, skipCard) ==
  IF i > Len(registry) THEN acc
  ELSE nearestFrom(registry, nearestStep(registry, acc, i, p, skipCard), i + 1, p, skipCard)

\* Variant of nearestEndpoint with a radius one pixel wider than SNAP.
nearestEndpoint_Within25(registry, p, skip) ==
  nearestFrom(registry, <<0, ((SNAP + 1) * SubPx) * ((SNAP + 1) * SubPx)>>, 1, p,
              registry[skip].card)[1]

\* connectors.js nearestEndpoint(x, y, skip): index of the endpoint returned,
\* 0 for null.
nearestEndpoint(registry, p, skip) ==
  nearestFrom(registry, <<0, (SNAP * SubPx) * (SNAP * SubPx)>>, 1, p, registry[skip].card)[1]

\* --------------------------------------- connectors.js: dots added on demand

\* Indices of the dots of a card, in DOM order (card.querySelectorAll('.dot')).
RECURSIVE dotsOfCardFrom(_, _, _)
dotsOfCardFrom(registry, c, i) ==
  IF i > Len(registry) THEN <<>>
  ELSE (IF registry[i].card = c THEN <<i>> ELSE <<>>) \o dotsOfCardFrom(registry, c, i + 1)

dotsOfCard(registry, c) == dotsOfCardFrom(registry, c, 1)

\* card.querySelectorAll(`.dot[data-side="${side}"]`), in DOM order.
dotsOnSide(registry, c, side) ==
  SelectSeq(dotsOfCard(registry, c), LAMBDA i: registry[i].side = side)

\* isDotOccupied(dot).
isDotOccupied(dot) == dot.occupied = "true"

\* getDotPosition(dot): the fraction along the edge (corners: left + top).
getDotPosition(dot) ==
  IF dot.side \in {TOP, BOTTOM} THEN dot.left
  ELSE IF dot.side \in {RIGHT, LEFT} THEN dot.top
  ELSE dot.left + dot.top

\* Insert index i into the sorted sequence s, after the entries that do not
\* compare greater (Array.prototype.sort is stable).
RECURSIVE insertByPosition(_, _, _)
insertByPosition(registry, s, i) ==
  IF s = <<>> THEN <<i>>
  ELSE IF getDotPosition(registry[Head(s)]) <= getDotPosition(registry[i])
       THEN <<Head(s)>> \o insertByPosition(registry, Tail(s), i)
       ELSE <<i>> \o s

RECURSIVE sortDotsByPosition(_, _)
sortDotsByPosition(registry, dots) ==
  IF dots = <<>> THEN <<>>
  ELSE insertByPosition(registry, sortDotsByPosition(registry, SubSeq(dots, 1, Len(dots) - 1)),
                        dots[Len(dots)])

\* The threshold 0.15 of createEdgeIntermediateDots and the distance 0.1 of
\* createNewDot, in position units.
GapThreshold == (15 * PosUnit) \div 100

TooClose == PosUnit \div 10

\* Variant of createNewDot that gives the new dot the corner after its side.
createNewDot_Corner(registry, c, side, left, top) ==
  IF \E i \in 1..Len(registry) :
       /\ registry[i].card = c
       /\ HypotLess(registry[i].left - left, registry[i].top - top, TooClose)
  THEN registry
  ELSE Append(registry, [card |-> c, side |-> side + 4, left |-> left, top |-> top,
                         occupied |-> "unset"])

\* createNewDot(card, side, left, top): the registry after the call.
createNewDot(registry, c, side, left, top) ==
  IF \E i \in 1..Len(registry) :
       /\ registry[i].card = c
       /\ HypotLess(registry[i].left - left, registry[i].top - top, TooClose)
  THEN registry
  ELSE Append(registry, [card |-> c, side |-> side, left |-> left, top |-> top,
                         occupied |-> "unset"])

\* The left/top of a new dot at fraction newPos of the edge.
newDotPos(side, newPos) ==
  IF side = TOP THEN <<newPos, 0>>
  ELSE IF side = RIGHT THEN <<PosUnit, newPos>>
  ELSE IF side = BOTTOM THEN <<newPos, PosUnit>>
  ELSE <<0, newPos>>

\* The loop of createEdgeIntermediateDots over the adjacent pairs of the
\* sorted dots: the positions to create, in order.
RECURSIVE newDotPositions(_, _, _)
newDotPositions(registry, sortedDots, i) ==
  IF i > Len(sortedDots) - 1 THEN <<>>
  ELSE (IF /\ isDotOccupied(registry[sortedDots[i]])
           /\ isDotOccupied(registry[sortedDots[i + 1]])
           /\ Abs(getDotPosition(registry[sortedDots[i]])
                  - getDotPosition(registry[sortedDots[i + 1]])) > GapThreshold
        THEN << (getDotPosition(registry[sortedDots[i]])
                 + getDotPosition(registry[sortedDots[i + 1]])) \div 2 >>
        ELSE <<>>)
       \o newDotPositions(registry, sortedDots, i + 1)

RECURSIVE createNewDots(_, _, _, _)
createNewDots(registry, c, side, positions) ==
  IF positions = <<>> THEN registry
  ELSE createNewDots(createNewDot(registry, c, side, newDotPos(side, Head(positions))[1],
                                  newDotPos(side, Head(positions))[2]),
                     c, side, Tail(positions))

createEdgeIntermediateDots(registry, c, side, existingDots) ==
  createNewDots(registry, c, side,
                newDotPositions(registry, sortDotsByPosition(registry, existingDots), 1))

\* connectors.js createIntermediateDots(card, side): edges only.
createIntermediateDots(registry, c, side) ==
  IF side <= 3 THEN createEdgeIntermediateDots(registry, c, side, dotsOnSide(registry, c, side))
  ELSE registry

\* connectors.js addAdjacentDots(card, occupiedDot).
addAdjacentDots(registry, dot) == createIntermediateDots(registry, registry[dot].card, registry[dot].side)

\* ConnectorManager.js addIntermediateDots(cardElement, dotElement): its
\* createIntermediateDots has an empty body, so the registry is unchanged.
addIntermediateDots(registry, dot) == registry

\* ------------------------------------- ConnectorManager.js: connection store

CM == "ConnectorManager"

CJ == "connectors"

NoDrawing == [active |-> FALSE, from |-> 0, x2 |-> 0, y2 |-> 0]

\* this.activeDrawing = null of ConnectionController.js, whose drawings start
\* from a pair of card id and dotSide.
NoDrawingCC == [active |-> FALSE, from |-> <<>>, x2 |-> 0, y2 |-> 0]

\* Pointer positions (pixels) the gestures are released at.  With the cards on
\* the default grid, card 1's RIGHT dot is at (350,181), card 2's LEFT dot at
\* (374,181), card 2's TOP dot at (549,56).
Pointers ==
  { Pt(362, 181),   \* 12 px from card 1 RIGHT and from card 2 LEFT
    Pt(370, 181),   \* 4 px from card 2 LEFT, 20 px from card 1 RIGHT
    Pt(549, 33),    \* 23 px from card 2 TOP
    Pt(549, 32),    \* exactly 24 px from card 2 TOP
    Pt(549, 31) }   \* 25 px from card 2 TOP

\* The dots a gesture starts from, as (card, side).
Sources == { <<1, RIGHT>>, <<3, LEFT>> }

\* Index in the registry of the first dot of a card on a side (0 if none).
dotIndex(registry, c, side) ==
  IF dotsOnSide(registry, c, side) = <<>> THEN 0 ELSE dotsOnSide(registry, c, side)[1]

\* Variant of markDotAsOccupied that also registers the dot as a dot of the
\* TOP side.
markDotAsOccupied_Moved(registry, i) ==
  [registry EXCEPT ![i].occupied = "true", ![i].side = TOP]

\* Variant of markDotAsOccupied that leaves data-occupied as it is.
markDotAsOccupied_Not(registry, i) == registry

\* markDotAsOccupied(dotElement).
markDotAsOccupied(registry, i) == [registry EXCEPT ![i].occupied = "true"]

\* Index of the first stored line with the id (lines.findIndex), 0 for -1.
RECURSIVE findIndexFrom(_, _, _)
findIndexFrom(ls, id, i) ==
  IF i > Len(ls) THEN 0
  ELSE IF ls[i].id = id THEN i ELSE findIndexFrom(ls, id, i + 1)

findIndex(ls, id) == findIndexFrom(ls, id, 1)

\* Variant of splice that also drops every line after the index.
splice_Tail(ls, index) == SubSeq(ls, 1, index - 1)

\* lines.splice(index, 1).
splice(ls, index) == SubSeq(ls, 1, index - 1) \o SubSeq(ls, index + 1, Len(ls))

\* The x1, y1, x2, y2 attributes a recalculation gives the line of a connection.
lineCoordinates(registry, line) ==
  << getElementCenter(registry[line.from]).x, getElementCenter(registry[line.from]).y,
     getElementCenter(registry[line.to]).x, getElementCenter(registry[line.to]).y >>

\* Variant of recalculateAllLines that moves each line element half of the way
\* to the centres of its dots.
recalculateAllLines_Drift(ls, registry, svg) ==
  [id \in DOMAIN svg |->
     IF findIndex(ls, id) # 0
     THEN [k \in 1..4 |-> svg[id][k] + (lineCoordinates(registry, ls[findIndex(ls, id)])[k] - svg[id][k]) \div 2]
     ELSE svg[id]]

\* recalculateAllLines / recalcAllLines: every stored line's element gets the
\* centres of its two dots; svg maps the data-id of a line element to its
\* attributes (the element of a stored line is in the layer with its id).
recalculateAllLines(ls, registry, svg) ==
  [id \in DOMAIN svg |->
     IF findIndex(ls, id) # 0 THEN lineCoordinates(registry, ls[findIndex(ls, id)])
     ELSE svg[id]]

\* The SVG layer with the line element of data-id id added.
svgWith(svg, id, attrs) ==
  [i \in DOMAIN svg \cup {id} |-> IF i = id THEN attrs ELSE svg[i]]

\* Variant of svgWithout that leaves the line element in the layer.
svgWithout_Keep(svg, id) == svg

\* The SVG layer with the line element of data-id id removed (svg.remove()).
svgWithout(svg, id) == [i \in DOMAIN svg \ {id} |-> svg[i]]

\* finalizeConnection(fromEndpoint, toEndpoint, lineElement): the store, the
\* registry and the layer after the call; x/y are the attributes the
\* provisional line had.
finalizeConnection(registry, ls, counter, svg, from, to, attrs) ==
  [ lineCounter |-> counter + 1,
    lines |-> Append(ls, [id |-> counter + 1, from |-> from, to |-> to]),
    endpoints |->
      addIntermediateDots(
        addIntermediateDots(markDotAsOccupied(markDotAsOccupied(registry, from), to), from), to),
    svgLines |->
      recalculateAllLines(Append(ls, [id |-> counter + 1, from |-> from, to |-> to]),
                          addIntermediateDots(
                            addIntermediateDots(
                              markDotAsOccupied(markDotAsOccupied(registry, from), to), from), to),
                          svgWith(svg, counter + 1, attrs)) ]

\* Variant of removeProvisionalLine that leaves the provisional line in the layer.
removeProvisionalLine_Kept(temp) == temp

\* activeDrawing.line.remove() / drawing.line.remove(): the number of line
\* elements without a data-id left in the layer.
removeProvisionalLine(temp) == temp - 1

\* startDrawingConnection(fromEndpoint, initialX, initialY): the pointer goes
\* down on the dot; a provisional line is appended and becomes the active drawing.
startDrawingConnection(d) ==
  /\ impl = CM
  /\ svgTemp < MaxTempLines
  /\ activeDrawing' = [active |-> TRUE, from |-> d,
                       x2 |-> getElementCenter(endpoints[d]).x,
                       y2 |-> getElementCenter(endpoints[d]).y]
  /\ svgTemp' = svgTemp + 1
  /\ last' = "startDrawingConnection"
  /\ UNCHANGED <<ccVars, probe, impl, endpoints, lines, lineCounter, svgLines, coreVars>>

\* handlePointerMove(event).
handlePointerMove(p) ==
  /\ impl = CM
  /\ activeDrawing.active
  /\ activeDrawing' = [activeDrawing EXCEPT !.x2 = p.x, !.y2 = p.y]
  /\ last' = "handlePointerMove"
  /\ UNCHANGED <<ccVars, probe, impl, endpoints, lines, lineCounter, svgLines, svgTemp, coreVars>>

\* handlePointerUp(event): the pointer is released where it last moved to.
handlePointerUp ==
  /\ impl = CM
  /\ activeDrawing.active
  /\ LET p == [x |-> activeDrawing.x2, y |-> activeDrawing.y2]
         toEndpoint == findNearestEndpoint(endpoints, p, activeDrawing.from)
         done == finalizeConnection(endpoints, lines, lineCounter, svgLines,
                                    activeDrawing.from, toEndpoint,
                                    <<getElementCenter(endpoints[activeDrawing.from]).x,
                                      getElementCenter(endpoints[activeDrawing.from]).y,
                                      p.x, p.y>>)
     IN IF toEndpoint # 0
        THEN /\ lineCounter < MaxLineCounter
             /\ lineCounter' = done.lineCounter
             /\ lines' = done.lines
             /\ endpoints' = done.endpoints
             /\ svgLines' = done.svgLines
             /\ svgTemp' = removeProvisionalLine(svgTemp)
             /\ last' = "finalizeConnection"
        ELSE /\ svgTemp' = removeProvisionalLine(svgTemp)
             /\ last' = "cancelled"
             /\ UNCHANGED <<endpoints, lines, lineCounter, svgLines>>
  /\ activeDrawing' = NoDrawing
  /\ UNCHANGED <<ccVars, probe, impl, coreVars>>

\* Saved connection records a layout load passes: <<fromCardId, fromSide,
\* toCardId, toSide>>.  Card 9 is not on the page and no dot has side 8.
SavedRecords ==
  { <<1, RIGHT, 2, LEFT>>, <<3, LEFT, 2, TOP>>, <<1, RIGHT, 1, LEFT>>,
    <<2, TOP, 9, LEFT>>, <<3, LEFT, 2, 8>> }

\* findDotAtSide(cardElement, side): an unoccupied dot of the side if there is
\* one, else the first dot of the side; 0 for null.
findDotAtSide(registry, c, side) ==
  LET dots == dotsOnSide(registry, c, side)
      free == SelectSeq(dots, LAMBDA i: registry[i].occupied # "true")
  IN IF dots = <<>> THEN 0
     ELSE IF free # <<>> THEN free[1]
     ELSE dots[1]

\* removeConnectionById(id).
removeConnectionById(id) ==
  /\ impl = CM
  /\ ~activeDrawing.active
  /\ LET index == findIndex(lines, id)
         line == lines[index]
         resetFrom == IF endpoints[line.from].occupied = "true"
                      THEN [endpoints EXCEPT ![line.from].occupied = "false"]
                      ELSE endpoints
         resetTo == IF resetFrom[line.to].occupied = "true"
                    THEN [resetFrom EXCEPT ![line.to].occupied = "false"]
                    ELSE resetFrom
     IN IF index = 0
        THEN UNCHANGED <<endpoints, lines, svgLines>>
        ELSE /\ svgLines' = svgWithout(svgLines, id)
             /\ endpoints' = resetTo
             /\ lines' = splice(lines, index)
  /\ last' = "removeConnectionById"
  /\ UNCHANGED <<ccVars, probe, impl, lineCounter, activeDrawing, svgTemp, coreVars>>

\* getAllConnections(): what the layout-save collaborator receives.
getAllConnections(ls, registry) ==
  [i \in 1..Len(ls) |->
     [id |-> ls[i].id,
      fromCardId |-> registry[ls[i].from].card, fromSide |-> registry[ls[i].from].side,
      toCardId |-> registry[ls[i].to].card, toSide |-> registry[ls[i].to].side]]

\* createConnectionFromSaved(fromCardId, fromSide, toCardId, toSide).
createConnectionFromSaved(rec) ==
  /\ impl = CM
  /\ ~activeDrawing.active
  /\ LET fromCardId == rec[1]
         fromSide == rec[2]
         toCardId == rec[3]
         toSide == rec[4]
         fromDot == IF fromCardId \in Cards THEN findDotAtSide(endpoints, fromCardId, fromSide) ELSE 0
         toDot == IF toCardId \in Cards THEN findDotAtSide(endpoints, toCardId, toSide) ELSE 0
         id == lineCounter + 1
         stored == Append(lines, [id |-> id, from |-> fromDot, to |-> toDot])
         marked == markDotAsOccupied(markDotAsOccupied(endpoints, fromDot), toDot)
     IN IF fromCardId \notin Cards \/ toCardId \notin Cards \/ fromDot = 0 \/ toDot = 0
        THEN /\ last' = "createConnectionFromSaved:skipped"
             /\ UNCHANGED <<endpoints, lines, lineCounter, svgLines>>
        ELSE /\ lineCounter < MaxLineCounter
             /\ lineCounter' = id
             /\ lines' = stored
             /\ endpoints' = marked
             /\ svgLines' = recalculateAllLines(stored, marked, svgWith(svgLines, id, <<0, 0, 0, 0>>))
             /\ last' = "createConnectionFromSaved"
  /\ UNCHANGED <<ccVars, probe, impl, activeDrawing, svgTemp, coreVars>>

\* Variant of clearAllConnections that also starts the line counter again.
clearAllConnections_ResetCounter ==
  /\ impl = CM
  /\ ~activeDrawing.active
  /\ svgLines' = [id \in DOMAIN svgLines \ {lines[i].id : i \in 1..Len(lines)} |-> svgLines[id]]
  /\ lines' = <<>>
  /\ endpoints' = [i \in 1..Len(endpoints) |->
                     IF endpoints[i].occupied = "true"
                     THEN [endpoints[i] EXCEPT !.occupied = "false"]
                     ELSE endpoints[i]]
  /\ lineCounter' = 0
  /\ last' = "clearAllConnections"
  /\ UNCHANGED <<ccVars, probe, impl, activeDrawing, svgTemp, coreVars>>

\* Variant of clearAllConnections that leaves the occupied flags as they are.
clearAllConnections_KeepFlags ==
  /\ impl = CM
  /\ ~activeDrawing.active
  /\ svgLines' = [id \in DOMAIN svgLines \ {lines[i].id : i \in 1..Len(lines)} |-> svgLines[id]]
  /\ lines' = <<>>
  /\ last' = "clearAllConnections"
  /\ UNCHANGED <<ccVars, probe, impl, lineCounter, activeDrawing, svgTemp, endpoints, coreVars>>

\* clearAllConnections().
clearAllConnections ==
  /\ impl = CM
  /\ ~activeDrawing.active
  /\ svgLines' = [id \in DOMAIN svgLines \ {lines[i].id : i \in 1..Len(lines)} |-> svgLines[id]]
  /\ lines' = <<>>
  /\ endpoints' = [i \in 1..Len(endpoints) |->
                     IF endpoints[i].occupied = "true"
                     THEN [endpoints[i] EXCEPT !.occupied = "false"]
                     ELSE endpoints[i]]
  /\ last' = "clearAllConnections"
  /\ UNCHANGED <<ccVars, probe, impl, lineCounter, activeDrawing, svgTemp, coreVars>>

\* ------------------------------------------------ connectors.js: the same store

\* finishDraw(from, to, line).
finishDraw(registry, ls, counter, svg, from, to, attrs) ==
  [ lineCounter |-> counter + 1,
    lines |-> Append(ls, [id |-> counter + 1, from |-> from, to |-> to]),
    endpoints |->
      addAdjacentDots(
        addAdjacentDots(markDotAsOccupied(markDotAsOccupied(registry, from), to), from), to),
    svgLines |->
      recalculateAllLines(Append(ls, [id |-> counter + 1, from |-> from, to |-> to]),
                          addAdjacentDots(
                            addAdjacentDots(
                              markDotAsOccupied(markDotAsOccupied(registry, from), to), from), to),
                          svgWith(svg, counter + 1, attrs)) ]

\* startDraw(from, x, y).
startDraw(d) ==
  /\ impl = CJ
  /\ svgTemp < MaxTempLines
  /\ activeDrawing' = [active |-> TRUE, from |-> d,
                       x2 |-> getElementCenter(endpoints[d]).x,
                       y2 |-> getElementCenter(endpoints[d]).y]
  /\ svgTemp' = svgTemp + 1
  /\ last' = "startDraw"
  /\ UNCHANGED <<ccVars, probe, impl, endpoints, lines, lineCounter, svgLines, coreVars>>

\* move(e).
move(p) ==
  /\ impl = CJ
  /\ activeDrawing.active
  /\ activeDrawing' = [activeDrawing EXCEPT !.x2 = p.x, !.y2 = p.y]
  /\ last' = "move"
  /\ UNCHANGED <<ccVars, probe, impl, endpoints, lines, lineCounter, svgLines, svgTemp, coreVars>>

\* up(e).
up ==
  /\ impl = CJ
  /\ activeDrawing.active
  /\ LET p == [x |-> activeDrawing.x2, y |-> activeDrawing.y2]
         target == nearestEndpoint(endpoints, p, activeDrawing.from)
         done == finishDraw(endpoints, lines, lineCounter, svgLines, activeDrawing.from, target,
                            <<getElementCenter(endpoints[activeDrawing.from]).x,
                              getElementCenter(endpoints[activeDrawing.from]).y,
                              p.x, p.y>>)
     IN IF target # 0
        THEN /\ lineCounter < MaxLineCounter
             /\ lineCounter' = done.lineCounter
             /\ lines' = done.lines
             /\ endpoints' = done.endpoints
             /\ svgLines' = done.svgLines
             /\ svgTemp' = removeProvisionalLine(svgTemp)
             /\ last' = "finishDraw"
        ELSE /\ svgTemp' = removeProvisionalLine(svgTemp)
             /\ last' = "cancelled"
             /\ UNCHANGED <<endpoints, lines, lineCounter, svgLines>>
  /\ activeDrawing' = NoDrawing
  /\ UNCHANGED <<ccVars, probe, impl, coreVars>>

\* removeLineById(id).
removeLineById(id) ==
  /\ impl = CJ
  /\ ~activeDrawing.active
  /\ LET index == findIndex(lines, id)
         line == lines[index]
         resetFrom == IF endpoints[line.from].occupied = "true"
                      THEN [endpoints EXCEPT ![line.from].occupied = "false"]
                      ELSE endpoints
         resetTo == IF resetFrom[line.to].occupied = "true"
                    THEN [resetFrom EXCEPT ![line.to].occupied = "false"]
                    ELSE resetFrom
     IN IF index # 0
        THEN /\ svgLines' = svgWithout(svgLines, id)
             /\ endpoints' = resetTo
             /\ lines' = splice(lines, index)
        ELSE UNCHANGED <<endpoints, lines, svgLines>>
  /\ last' = "removeLineById"
  /\ UNCHANGED <<ccVars, probe, impl, lineCounter, activeDrawing, svgTemp, coreVars>>

\* getLines().
getLines(ls, registry) ==
  [i \in 1..Len(ls) |->
     [id |-> ls[i].id,
      fromCard |-> registry[ls[i].from].card, fromSide |-> registry[ls[i].from].side,
      toCard |-> registry[ls[i].to].card, toSide |-> registry[ls[i].to].side]]

\* createLineFromSaved(fromCardId, fromSide, toCardId, toSide).
createLineFromSaved(rec) ==
  /\ impl = CJ
  /\ ~activeDrawing.active
  /\ LET fromCardId == rec[1]
         fromSide == rec[2]
         toCardId == rec[3]
         toSide == rec[4]
         fromDot == IF fromCardId \in Cards THEN findDotAtSide(endpoints, fromCardId, fromSide) ELSE 0
         toDot == IF toCardId \in Cards THEN findDotAtSide(endpoints, toCardId, toSide) ELSE 0
         id == lineCounter + 1
         stored == Append(lines, [id |-> id, from |-> fromDot, to |-> toDot])
         marked == addAdjacentDots(
                     addAdjacentDots(markDotAsOccupied(markDotAsOccupied(endpoints, fromDot), toDot),
                                     fromDot), toDot)
     IN IF fromCardId \notin Cards \/ toCardId \notin Cards \/ fromDot = 0 \/ toDot = 0
        THEN /\ last' = "createLineFromSaved:skipped"
             /\ UNCHANGED <<endpoints, lines, lineCounter, svgLines>>
        ELSE /\ lineCounter < MaxLineCounter
             /\ lineCounter' = id
             /\ lines' = stored
             /\ endpoints' = marked
             /\ svgLines' = recalculateAllLines(stored, marked, svgWith(svgLines, id, <<0, 0, 0, 0>>))
             /\ last' = "createLineFromSaved"
  /\ UNCHANGED <<ccVars, probe, impl, activeDrawing, svgTemp, coreVars>>

\* clearAllLines().
clearAllLines ==
  /\ impl = CJ
  /\ ~activeDrawing.active
  /\ svgLines' = [id \in DOMAIN svgLines \ {lines[i].id : i \in 1..Len(lines)} |-> svgLines[id]]
  /\ lines' = <<>>
  /\ endpoints' = [i \in 1..Len(endpoints) |->
                     IF endpoints[i].occupied = "true"
                     THEN [endpoints[i] EXCEPT !.occupied = "false"]
                     ELSE endpoints[i]]
  /\ last' = "clearAllLines"
  /\ UNCHANGED <<ccVars, probe, impl, lineCounter, activeDrawing, svgTemp, coreVars>>

\* ----------------------- ConnectionController.js: the page and the registry

CC == "ConnectionController"

\* ConnectorConfig.SNAP_DISTANCE.
SNAP_DISTANCE == 24

\* A dot id `dot-${cardId}-${side}-${ms}` is the tuple <<cardId, side, ms>>; a
\* dot element without a data-dot-id carries <<>>.
NoDotId == <<>>

\* An element reference <<k, j>>: dot j of the k-th card of the workspace, in
\* document order; <<0, 0>> is null.
NoElement == <<0, 0>>

\* The key of the provisional line in SVGRenderer._connections ('temp-connection').
TempConnection == 0

\* The position argument left out (null).
NoPosition == -1

\* DOMRenderer._createCardTemplate: the four dots of a card, none with a
\* data-occupied attribute; x, y is the centre of the dot within the card
\* (style.css .dot-top, .dot-right, .dot-bottom, .dot-left), in sub-pixels.
cardTemplate ==
  << [side |-> 0, x |-> (CARD_WIDTH * SubPx) \div 2, y |-> 0,
      occupied |-> "unset", dotId |-> NoDotId],
     [side |-> 1, x |-> CARD_WIDTH * SubPx, y |-> (CARD_HEIGHT * SubPx) \div 2,
      occupied |-> "unset", dotId |-> NoDotId],
     [side |-> 2, x |-> (CARD_WIDTH * SubPx) \div 2, y |-> CARD_HEIGHT * SubPx,
      occupied |-> "unset", dotId |-> NoDotId],
     [side |-> 3, x |-> 0, y |-> (CARD_HEIGHT * SubPx) \div 2,
      occupied |-> "unset", dotId |-> NoDotId] >>

\* DOMRenderer.createCardElement(cardData): a clone of the template appended
\* to the workspace, its style.left and style.top (in sub-pixels) the position
\* of the card data, which is the grid position of the scenario.
createCardElement(d, scenarioId) ==
  Append(d, [scenario |-> scenarioId, left |-> CardX(scenarioId) * SubPx,
             top |-> CardY(scenarioId) * SubPx, dots |-> cardTemplate])

\* document.querySelector(`.card[data-scenario="${id}"]`): the index of the
\* first such card of the workspace, 0 for null.
RECURSIVE querySelectorCardFrom(_, _, _)
querySelectorCardFrom(d, id, k) ==
  IF k > Len(d) THEN 0
  ELSE IF d[k].scenario = id THEN k ELSE querySelectorCardFrom(d, id, k + 1)

querySelectorCard(d, id) == querySelectorCardFrom(d, id, 1)

\* card.querySelector(`.dot[data-side="${index}"]`): the first such dot, 0 for null.
RECURSIVE querySelectorDotFrom(_, _, _)
querySelectorDotFrom(dots, index, j) ==
  IF j > Len(dots) THEN 0
  ELSE IF dots[j].side = index THEN j ELSE querySelectorDotFrom(dots, index, j + 1)

querySelectorDot(dots, index) == querySelectorDotFrom(dots, index, 1)

\* calculateElementCenterCoordinates(element) of a dot; a card sits at its
\* style.left and style.top.
calculateElementCenterCoordinates(d, el) ==
  [x |-> d[el[1]].left + d[el[1]].dots[el[2]].x,
   y |-> d[el[1]].top + d[el[1]].dots[el[2]].y]

\* The inner forEach of _findDotAtPosition over the dots of card k: only the
\* dots whose data-occupied is "false" are looked at; acc is <<closestDot,
\* closestDistance squared>>.
RECURSIVE closestInCard(_, _, _, _, _)
closestInCard(d, acc, k, j, p) ==
  IF j > Len(d[k].dots) THEN acc
  ELSE IF /\ d[k].dots[j].occupied = "false"
          /\ DistSq(calculateElementCenterCoordinates(d, <<k, j>>), p) < acc[2]
       THEN closestInCard(d, << <<k, j>>, DistSq(calculateElementCenterCoordinates(d, <<k, j>>), p) >>,
                          k, j + 1, p)
       ELSE closestInCard(d, acc, k, j + 1, p)

\* The card filter of _findDotAtPosition: what is done with card k.
closestSkippingCard(d, acc, k, p, sourceCardId) ==
  IF d[k].scenario = sourceCardId THEN acc ELSE closestInCard(d, acc, k, 1, p)

RECURSIVE _findDotAtPositionFrom(_, _, _, _, _)
_findDotAtPositionFrom(d, acc, k, p, sourceCardId) ==
  IF k > Len(d) THEN acc
  ELSE _findDotAtPositionFrom(d, closestSkippingCard(d, acc, k, p, sourceCardId), k + 1, p,
                              sourceCardId)

\* _findDotAtPosition(x, y, sourceCardId): the element returned, NoElement for null.
_findDotAtPosition(d, p, sourceCardId) ==
  _findDotAtPositionFrom(d, <<NoElement, (SNAP_DISTANCE * SubPx) * (SNAP_DISTANCE * SubPx)>>,
                         1, p, sourceCardId)[1]

\* The state the controller's operations work on is the record s:
\*   s.dom          the cards of the workspace, in document order
\*   s.dots         this._dots: card id -> its registered dots, in push order
\*   s.connections  the state manager's connections, in insertion order
\*   s.svg          SVGRenderer._connections: id -> the coordinates of its line
\*   s.orphans      line elements of the container that no key of s.svg holds

\* One step of the forEach of _initializeCardDots: dotElement is the j-th dot
\* of the k-th card, 0 for null; acc holds the workspace and the entries
\* pushed so far.
registerDefaultDot(acc, k, index, j) ==
  IF j = 0 THEN acc
  ELSE [dom |-> [acc.dom EXCEPT ![k].dots[j].dotId = <<acc.dom[k].scenario, index, 500>>],
        entries |-> Append(acc.entries,
                           [id |-> <<acc.dom[k].scenario, index, 500>>, side |-> index,
                            position |-> Half, element |-> <<k, j>>, occupied |-> FALSE])]

\* The forEach of _initializeCardDots over the four default dots.
RECURSIVE initializeDefaultDots(_, _, _)
initializeDefaultDots(acc, k, index) ==
  IF index > 3 THEN acc
  ELSE initializeDefaultDots(
         registerDefaultDot(acc, k, index, querySelectorDot(acc.dom[k].dots, index)), k, index + 1)

\* this._dots[cardId] = the entries pushed, with the data-dot-ids written.
withCardDots(s, cardId, done) ==
  [s EXCEPT !.dom = done.dom,
            !.dots = [c \in DOMAIN s.dots \cup {cardId} |->
                        IF c = cardId THEN done.entries ELSE s.dots[c]]]

\* _initializeCardDots(card), card being the k-th card of the workspace.
_initializeCardDots(s, k) ==
  withCardDots(s, s.dom[k].scenario,
               initializeDefaultDots([dom |-> s.dom, entries |-> <<>>], k, 0))

\* if (!this._dots[cardId]) this._initializeCardDots(card).
ensureCardDots(s, k) ==
  IF s.dom[k].scenario \in DOMAIN s.dots THEN s ELSE _initializeCardDots(s, k)

\* Array.prototype.find on the registered dots of a card by id: the index of
\* the first entry with the id, 0 for undefined.
RECURSIVE findDotIdFrom(_, _, _)
findDotIdFrom(entries, dotId, i) ==
  IF i > Len(entries) THEN 0
  ELSE IF entries[i].id = dotId THEN i ELSE findDotIdFrom(entries, dotId, i + 1)

\* What _getDotData returns for the index find gave: found is FALSE for
\* undefined.
dotDataAt(s1, entries, i) ==
  [s |-> s1, found |-> i # 0,
   side |-> IF i # 0 THEN entries[i].side ELSE 0,
   position |-> IF i # 0 THEN entries[i].position ELSE 0]

\* this._dots[cardId].find(d => d.id === dotId).
findDotData(s1, cardId, dotId) ==
  dotDataAt(s1, s1.dots[cardId], findDotIdFrom(s1.dots[cardId], dotId, 1))

\* _getDotData(dot): the data-dot-id is read before the card's dots are
\* registered.
_getDotData(s, el) ==
  findDotData(ensureCardDots(s, el[1]), s.dom[el[1]].scenario, s.dom[el[1]].dots[el[2]].dotId)


\* _extractDotInfo(dotSide): dotSide is <<side>> for the number a template
\* dot's listener sends and a dot id <<cardId, side, ms>> for the string a
\* generated dot's listener sends; parseInt(parts[3]) / 1000 is ms thousandths.
_extractDotInfo(dotSide) ==
  IF Len(dotSide) = 3
  THEN [side |-> dotSide[2], position |-> (dotSide[3] * PosUnit) \div 1000]
  ELSE [side |-> dotSide[1], position |-> Half]

\* The two find calls of _findDotByData: the index of the first registered
\* dot of the side within 0.01 of the position, or, for a null position, the
\* first one of the side that is not occupied; 0 for undefined.
RECURSIVE findDotEntryFrom(_, _, _, _)
findDotEntryFrom(entries, side, position, i) ==
  IF i > Len(entries) THEN 0
  ELSE IF /\ entries[i].side = side
          /\ IF position # NoPosition
             THEN Abs(entries[i].position - position) < PosUnit \div 100
             ELSE ~entries[i].occupied
       THEN i
       ELSE findDotEntryFrom(entries, side, position, i + 1)

\* dotData ? dotData.element : null, for the index find gave.
elementAt(s1, entries, i) ==
  [s |-> s1, el |-> IF i # 0 THEN entries[i].element ELSE NoElement]

\* The find of _findDotByData on the registered dots of the card.
findElement(s1, cardId, side, position) ==
  elementAt(s1, s1.dots[cardId], findDotEntryFrom(s1.dots[cardId], side, position, 1))

\* _findDotByData(card, side, position = null), card being the k-th card:
\* the state after the call and the element returned.
_findDotByData(s, k, side, position) ==
  findElement(ensureCardDots(s, k), s.dom[k].scenario, side, position)

\* dot.occupied = occupied on the i-th registered dot of the card, if any.
setEntryOccupied(s, cardId, i, occupied) ==
  IF i = 0 THEN s ELSE [s EXCEPT !.dots[cardId][i].occupied = occupied]

\* _updateDotState(cardId, dotId, occupied).
_updateDotState(s, cardId, dotId, occupied) ==
  IF cardId \notin DOMAIN s.dots THEN s
  ELSE setEntryOccupied(s, cardId, findDotIdFrom(s.dots[cardId], dotId, 1), occupied)

\* Variant of the loop that also takes a gap of exactly 0.1.
RECURSIVE midpointsFrom_AtLeast(_, _)
midpointsFrom_AtLeast(positions, i) ==
  IF i > Len(positions) - 1 THEN <<>>
  ELSE (IF positions[i + 1] - positions[i] >= PosUnit \div 10
        THEN << (positions[i] + positions[i + 1]) \div 2 >>
        ELSE <<>>)
       \o midpointsFrom_AtLeast(positions, i + 1)

\* The loop of _calculateNewDotPositions over positions[i], positions[i + 1].
RECURSIVE midpointsFrom(_, _)
midpointsFrom(positions, i) ==
  IF i > Len(positions) - 1 THEN <<>>
  ELSE (IF positions[i + 1] - positions[i] > PosUnit \div 10
        THEN << (positions[i] + positions[i + 1]) \div 2 >>
        ELSE <<>>)
       \o midpointsFrom(positions, i + 1)

\* _calculateNewDotPositions(occupiedDots, side).
_calculateNewDotPositions(occupiedDots) ==
  midpointsFrom(<<0>> \o [i \in 1..Len(occupiedDots) |-> occupiedDots[i].position] \o <<PosUnit>>, 1)

\* The centre of a dot _createDotElement places at relativePosition of a side.
dotPlacement(side, relativePosition) ==
  IF side = 0 THEN << (CARD_WIDTH * SubPx * relativePosition) \div PosUnit, 0 >>
  ELSE IF side = 1 THEN << CARD_WIDTH * SubPx, (CARD_HEIGHT * SubPx * relativePosition) \div PosUnit >>
  ELSE IF side = 2
       THEN << (CARD_WIDTH * SubPx * (PosUnit - relativePosition)) \div PosUnit, CARD_HEIGHT * SubPx >>
  ELSE << 0, (CARD_HEIGHT * SubPx * (PosUnit - relativePosition)) \div PosUnit >>

\* _createDotElement(card, side, relativePosition, dotId): the workspace with
\* the new dot appended to the k-th card.
_createDotElement(d, k, side, relativePosition, dotId) ==
  [d EXCEPT ![k].dots = Append(@, [side |-> side, x |-> dotPlacement(side, relativePosition)[1],
                                   y |-> dotPlacement(side, relativePosition)[2],
                                   occupied |-> "false", dotId |-> dotId])]

\* Math.round(position * 1000).
roundThousandths(position) == (position * 1000 + PosUnit \div 2) \div PosUnit

\* One step of newDotPositions.forEach of _generateNewDots: the dot element
\* is created and the entry pushed.
pushNewDot(s, k, side, position, dotId) ==
  [s EXCEPT !.dom = _createDotElement(s.dom, k, side, position, dotId),
            !.dots[s.dom[k].scenario] =
               Append(@, [id |-> dotId, side |-> side, position |-> position,
                          element |-> <<k, Len(s.dom[k].dots) + 1>>, occupied |-> FALSE])]

\* newDotPositions.forEach of _generateNewDots.
RECURSIVE pushNewDots(_, _, _, _)
pushNewDots(s, k, side, positions) ==
  IF positions = <<>> THEN s
  ELSE pushNewDots(pushNewDot(s, k, side, Head(positions),
                              <<s.dom[k].scenario, side, roundThousandths(Head(positions))>>),
                   k, side, Tail(positions))

\* sort((a, b) => a.position - b.position) on registry entries (stable).
RECURSIVE insertEntry(_, _)
insertEntry(sorted, e) ==
  IF sorted = <<>> THEN <<e>>
  ELSE IF Head(sorted).position <= e.position
       THEN <<Head(sorted)>> \o insertEntry(Tail(sorted), e)
       ELSE <<e>> \o sorted

RECURSIVE sortEntries(_)
sortEntries(entries) ==
  IF entries = <<>> THEN <<>>
  ELSE insertEntry(sortEntries(SubSeq(entries, 1, Len(entries) - 1)), entries[Len(entries)])

\* The body of the for loop of _generateNewDots for one side, given the
\* occupied registered dots of the side in position order.
generateOnSide(s, k, side, occupiedDots) ==
  IF occupiedDots = <<>> THEN s
  ELSE pushNewDots(s, k, side, _calculateNewDotPositions(occupiedDots))

\* The for loop of _generateNewDots over the sides 0..3.
RECURSIVE generateFromSide(_, _, _)
generateFromSide(s, k, side) ==
  IF side >= 4 THEN s
  ELSE generateFromSide(
         generateOnSide(s, k, side,
                        SelectSeq(sortEntries(SelectSeq(s.dots[s.dom[k].scenario],
                                                        LAMBDA e: e.side = side)),
                                  LAMBDA e: e.occupied)),
         k, side + 1)

\* _generateNewDots(card), card being the k-th card.
_generateNewDots(s, k) == generateFromSide(ensureCardDots(s, k), k, 0)

\* SVGRenderer.createConnectionLine(connectionData): the line is appended and
\* the map entry of its id set; a line the entry held before stays in the
\* container without a key.
createConnectionLine(s, id, coordinates) ==
  [s EXCEPT !.svg = svgWith(s.svg, id, coordinates),
            !.orphans = IF id \in DOMAIN s.svg THEN @ + 1 ELSE @]

\* SVGRenderer.updateConnectionCoordinates(connectionId, coordinates).
updateConnectionCoordinates(s, id, coordinates) ==
  IF id \notin DOMAIN s.svg THEN s ELSE [s EXCEPT !.svg[id] = coordinates]

\* SVGRenderer.removeConnection(connectionId).
svgRemoveConnection(s, id) ==
  IF id \notin DOMAIN s.svg THEN s ELSE [s EXCEPT !.svg = svgWithout(s.svg, id)]

\* The coordinates of a line between the centres of two dots.
centerToCenter(d, fromDot, toDot) ==
  << calculateElementCenterCoordinates(d, fromDot).x, calculateElementCenterCoordinates(d, fromDot).y,
     calculateElementCenterCoordinates(d, toDot).x, calculateElementCenterCoordinates(d, toDot).y >>

\* The end of _updateConnectionPosition: the coordinates are updated when
\* both dots were found.
updateBetweenDots(connection, fromDot, t) ==
  IF fromDot = NoElement \/ t.el = NoElement THEN t.s
  ELSE updateConnectionCoordinates(t.s, connection.id, centerToCenter(t.s.dom, fromDot, t.el))

\* The two lookups of _updateConnectionPosition: the model keeps no
\* fromPosition / toPosition, so both take the null-position branch.
updateFromDot(connection, toCard, f) ==
  updateBetweenDots(connection, f.el, _findDotByData(f.s, toCard, connection.toSide, NoPosition))

updateBetweenCards(s, connection, fromCard, toCard) ==
  IF fromCard = 0 \/ toCard = 0 THEN s
  ELSE updateFromDot(connection, toCard,
                     _findDotByData(s, fromCard, connection.fromSide, NoPosition))

\* _updateConnectionPosition(connectionId, connection).
_updateConnectionPosition(s, connection) ==
  updateBetweenCards(s, connection, querySelectorCard(s.dom, connection.fromCardId),
                     querySelectorCard(s.dom, connection.toCardId))

\* stateManager.setState(`connections.${id}`, connection): a new key goes
\* last, an existing key keeps its place and takes the new value.
setConnection(conns, connection) ==
  IF \E i \in 1..Len(conns) : conns[i].id = connection.id
  THEN [i \in 1..Len(conns) |-> IF conns[i].id = connection.id THEN connection ELSE conns[i]]
  ELSE Append(conns, connection)

\* delete connections[connectionId].
deleteConnection(conns, connectionId) == SelectSeq(conns, LAMBDA c: c.id # connectionId)

\* dot.dataset.occupied = value on the element el.
setOccupied(s, el, value) == [s EXCEPT !.dom[el[1]].dots[el[2]].occupied = value]

\* new ConnectionModel(id, fromCardId, fromSide, toCardId, toSide,
\* fromPosition, toPosition): the model keeps the first five; fromAttached and
\* toAttached record the two positions the constructor is handed as further
\* arguments and does not keep.
ConnectionModel(connectionId, fromCardId, fromDotData, toCardId, toDotSide, toDotPosition) ==
  [id |-> connectionId, fromCardId |-> fromCardId, fromSide |-> fromDotData.side,
   toCardId |-> toCardId, toSide |-> toDotSide,
   fromAttached |-> fromDotData.position, toAttached |-> toDotPosition]

\* this._updateDotState for both dots of a connection just marked.
updateBothDotStates(marked, connection, fromDot, toDot) ==
  _updateDotState(
    _updateDotState(marked, connection.fromCardId,
                    marked.dom[fromDot[1]].dots[fromDot[2]].dotId, TRUE),
    connection.toCardId, marked.dom[toDot[1]].dots[toDot[2]].dotId, TRUE)

\* Both dots get data-occupied = 'true' and their registry entries are updated.
markBothDots(s, connection, fromDot, toDot) ==
  updateBothDotStates(setOccupied(setOccupied(s, fromDot, "true"), toDot, "true"),
                      connection, fromDot, toDot)

\* The temporary line is removed and the line of the connection created.
renderLine(generated, connection, fromDot, toDot) ==
  createConnectionLine(svgRemoveConnection(generated, TempConnection), connection.id,
                       centerToCenter(generated.dom, fromDot, toDot))

\* The body of _completeAndRenderConnection once both dots were looked up:
\* with a dot missing the connection is deleted from the state and the
\* method returns.
renderBetweenDots(connection, fromCard, toCard, fromDot, t) ==
  IF fromDot = NoElement \/ t.el = NoElement
  THEN [t.s EXCEPT !.connections = deleteConnection(@, connection.id)]
  ELSE _updateConnectionPosition(
         renderLine(_generateNewDots(
                      _generateNewDots(markBothDots(t.s, connection, fromDot, t.el), fromCard),
                      toCard),
                    connection, fromDot, t.el),
         connection)

\* The lookup of the target dot, after that of the source dot.
renderFromDot(connection, fromCard, toCard, f) ==
  renderBetweenDots(connection, fromCard, toCard, f.el,
                    _findDotByData(f.s, toCard, connection.toSide, connection.toAttached))

\* if (fromCard && toCard) { ... } this._updateConnectionPosition(...).
renderBetweenCards(s0, connection, fromCard, toCard) ==
  IF fromCard # 0 /\ toCard # 0
  THEN renderFromDot(connection, fromCard, toCard,
                     _findDotByData(s0, fromCard, connection.fromSide, connection.fromAttached))
  ELSE _updateConnectionPosition(s0, connection)

\* The connection is stored first, the cards are looked up next.
storeAndRender(s, connection) ==
  renderBetweenCards([s EXCEPT !.connections = setConnection(@, connection)], connection,
                     querySelectorCard(s.dom, connection.fromCardId),
                     querySelectorCard(s.dom, connection.toCardId))

\* _completeAndRenderConnection(fromCardId, fromDotSide, toCardId, toDotSide,
\* toDotPosition) with connectionId the id generateId returned.
_completeAndRenderConnection(s, connectionId, fromCardId, fromDotSide, toCardId, toDotSide, toDotPosition) ==
  storeAndRender(s, ConnectionModel(connectionId, fromCardId, _extractDotInfo(fromDotSide),
                                    toCardId, toDotSide, toDotPosition))

\* createConnectionFromData(connectionData): connectionData is <<fromId,
\* fromSide, toId, toSide>> or, with a toPosition, a fifth component.
createConnectionFromData(s, connectionId, connectionData) ==
  _completeAndRenderConnection(s, connectionId, connectionData[1], <<connectionData[2]>>,
                               connectionData[3], connectionData[4],
                               IF Len(connectionData) >= 5 /\ connectionData[5] # 0
                               THEN connectionData[5] ELSE Half)

\* A dot of a removed connection goes back to data-occupied = 'false', if it
\* was found.
resetDot(s, cardId, el) ==
  IF el = NoElement THEN s
  ELSE _updateDotState(setOccupied(s, el, "false"), cardId, s.dom[el[1]].dots[el[2]].dotId, FALSE)

resetBothDots(connection, fromDot, t) ==
  resetDot(resetDot(t.s, connection.fromCardId, fromDot), connection.toCardId, t.el)

\* The lookups of removeConnection: the connection carries no fromPosition /
\* toPosition, so both take the null-position branch of _findDotByData.
resetFromDot(connection, toCard, f) ==
  resetBothDots(connection, f.el, _findDotByData(f.s, toCard, connection.toSide, NoPosition))

resetBetweenCards(s, connection, fromCard, toCard) ==
  IF fromCard # 0 /\ toCard # 0
  THEN resetFromDot(connection, toCard,
                    _findDotByData(s, fromCard, connection.fromSide, NoPosition))
  ELSE s

\* removeConnection for the connection the state holds under the id.
removeStored(s, connection) ==
  [svgRemoveConnection(resetBetweenCards(s, connection,
                                         querySelectorCard(s.dom, connection.fromCardId),
                                         querySelectorCard(s.dom, connection.toCardId)),
                       connection.id)
     EXCEPT !.connections = deleteConnection(@, connection.id)]

\* removeConnection(connectionId).
removeConnection(s, connectionId) ==
  IF \A i \in 1..Len(s.connections) : s.connections[i].id # connectionId THEN s
  ELSE removeStored(s, SelectSeq(s.connections, LAMBDA c: c.id = connectionId)[1])

\* Object.keys(connections).forEach(id => this.removeConnection(id)).
RECURSIVE removeEach(_, _)
removeEach(s, ids) ==
  IF ids = <<>> THEN s ELSE removeEach(removeConnection(s, Head(ids)), Tail(ids))

\* document.querySelectorAll('.dot[data-occupied="true"]') set to 'false' and
\* this._dots = {}.
clearOccupied(removed) ==
  [removed EXCEPT
     !.dom = [k \in 1..Len(removed.dom) |->
                [removed.dom[k] EXCEPT
                   !.dots = [j \in 1..Len(removed.dom[k].dots) |->
                               IF removed.dom[k].dots[j].occupied = "true"
                               THEN [removed.dom[k].dots[j] EXCEPT !.occupied = "false"]
                               ELSE removed.dom[k].dots[j]]]],
     !.dots = <<>>]

\* removeAllConnectionsFromModelAndDom(): every connection removed, every
\* data-occupied="true" of the document set to "false", the registry emptied.
removeAllConnectionsFromModelAndDom(s) ==
  clearOccupied(removeEach(s, [i \in 1..Len(s.connections) |-> s.connections[i].id]))

\* The least key of an object with integer keys.
firstKey(ids) == CHOOSE i \in ids : \A o \in ids : i <= o

\* The keys of an object with integer keys, ascending.
RECURSIVE keysAscending(_)
keysAscending(ids) ==
  IF ids = {} THEN <<>> ELSE <<firstKey(ids)>> \o keysAscending(ids \ {firstKey(ids)})

\* cardElement.remove() on the k-th card of the workspace, if (cardElement).
removeCardElement(d, k) ==
  IF k = 0 THEN d ELSE SubSeq(d, 1, k - 1) \o SubSeq(d, k + 1, Len(d))

\* Object.keys(cards).forEach: the first card element of each id is removed.
RECURSIVE removeCardElements(_, _)
removeCardElements(d, ids) ==
  IF ids = <<>> THEN d
  ELSE removeCardElements(removeCardElement(d, querySelectorCard(d, Head(ids))), Tail(ids))

\* CardController.createCardModelAndElement(scenarioId, position).
createCardModelAndElement(s, scenarioId) ==
  [s EXCEPT !.cards = @ \cup {scenarioId}, !.dom = createCardElement(@, scenarioId)]

RECURSIVE createCards(_, _)
createCards(s, ids) ==
  IF ids = <<>> THEN s ELSE createCards(createCardModelAndElement(s, Head(ids)), Tail(ids))

\* CardController.createDefaultCards().
createDefaultCards(s) == createCards(s, keysAscending(Cards))

\* The card elements of the cards in the state are removed and the cards of
\* the state reset.
removeCards(cleared) ==
  [cleared EXCEPT !.dom = removeCardElements(@, keysAscending(cleared.cards)), !.cards = {}]

\* The part resetLayout and deserializeAndApplyLayout share: the connections
\* are cleared, then the cards.
clearLayout(s) == removeCards(removeAllConnectionsFromModelAndDom(s))

\* LayoutController.resetLayout().
resetLayout(s) == createDefaultCards(clearLayout(s))


\* layout.connections.forEach(conn => createConnectionFromData(conn)): a null
\* entry (<<>>) raises a TypeError and ends the loop; ids are the ids
\* generateId returns, in order.
RECURSIVE processConnections(_, _, _)
processConnections(s, connectionData, ids) ==
  IF connectionData = <<>> THEN [s |-> s, thrown |-> FALSE]
  ELSE IF Head(connectionData) = <<>> THEN [s |-> s, thrown |-> TRUE]
  ELSE processConnections(createConnectionFromData(s, Head(ids), Head(connectionData)),
                          Tail(connectionData), Tail(ids))

\* The end of deserializeAndApplyLayout: the layout is written to
\* localStorage, or, in the catch block, the default cards are created on top
\* of what the load had built.
storeOrFallBack(done, layout) ==
  IF done.thrown THEN createDefaultCards(done.s) ELSE [done.s EXCEPT !.stored = layout]

\* LayoutController.deserializeAndApplyLayout(layout): a layout is its card
\* ids and its connection entries.
deserializeAndApplyLayout(s, layout, ids) ==
  storeOrFallBack(processConnections(createCards(clearLayout(s), layout.cards),
                                     layout.connections, ids),
                  layout)

\* LayoutController.serializeLayout(): the layout object, also written to
\* localStorage.
serializeLayout(s) ==
  [cards |-> keysAscending(s.cards),
   connections |-> [i \in 1..Len(s.connections) |->
                      << s.connections[i].fromCardId, s.connections[i].fromSide,
                         s.connections[i].toCardId, s.connections[i].toSide >>]]

\* ------------------------------------- ConnectionController.js: the handlers

\* The controller's state as the record the operations work on.
ccState ==
  [dom |-> dom, dots |-> _dots, connections |-> connections, cards |-> cards,
   svg |-> svgLines, orphans |-> svgTemp, stored |-> storedLayout]

\* The variables take the values of the record s.
becomes(s) ==
  /\ dom' = s.dom
  /\ _dots' = s.dots
  /\ connections' = s.connections
  /\ cards' = s.cards
  /\ svgLines' = s.svg
  /\ svgTemp' = s.orphans
  /\ storedLayout' = s.stored

\* The state stays within the bounds of the model.
withinBounds(s) ==
  /\ Len(s.dom) <= MaxDomCards
  /\ \A k \in 1..Len(s.dom) : Len(s.dom[k].dots) <= MaxDots
  /\ Len(s.connections) <= MaxConnections
  /\ s.orphans <= MaxTempLines

\* Pointer positions of the controller's gestures.  After a load of a
\* connection from card 1's RIGHT dot to card 2's LEFT dot, the dot generated
\* at 0.25 of card 1's right side is at (350,118.5) and the one at 0.75 of
\* card 2's left side at (374,118.5).
CCPointers ==
  { [x |-> 362 * SubPx, y |-> 118 * SubPx + SubPx \div 2],   \* 12 px from both generated dots
    Pt(362, 181) }                                           \* 12 px from the two template dots

\* The dots gestures start from: the RIGHT dot of a card 1, the LEFT dot of a
\* card 3 and the first generated dot of a card 2.
CCSources ==
  { el \in { <<k, j>> : k \in 1..Len(dom), j \in 1..MaxDots } :
      /\ el[2] <= Len(dom[el[1]].dots)
      /\ \/ dom[el[1]].scenario = 1 /\ el[2] = 2
         \/ dom[el[1]].scenario = 3 /\ el[2] = 4
         \/ dom[el[1]].scenario = 2 /\ el[2] = Len(cardTemplate) + 1 }

\* The dotSide a dot's pointerdown listener sends: the number of the side for
\* a dot of the template (CardController._setupCardEventHandlers), the dot id
\* for a generated dot (_createDotElement).
dotSideOf(d, el) ==
  IF el[2] <= Len(cardTemplate) THEN <<d[el[1]].dots[el[2]].side>> ELSE d[el[1]].dots[el[2]].dotId

\* The controller and the renderer take the state s, the handler leaving
\* outcome behind.
settles(s, outcome) ==
  /\ withinBounds(s)
  /\ becomes(s)
  /\ last' = outcome
  /\ UNCHANGED <<_lastConnectionUpdateTime, dragged>>

\* The temporary line and this.activeDrawing of _handleConnectionStart, start
\* being the centre of the dot.
startDrawingAt(el, start) ==
  /\ activeDrawing' = [active |-> TRUE, from |-> <<dom[el[1]].scenario, dotSideOf(dom, el)>>,
                       x2 |-> start.x, y2 |-> start.y]
  /\ settles(createConnectionLine(ccState, TempConnection,
                                  <<start.x, start.y, start.x, start.y>>),
             "_handleConnectionStart")

\* _handleConnectionStart(data): 'connection:start' from the dot el.
_handleConnectionStart(el) ==
  /\ impl = CC
  /\ startDrawingAt(el, calculateElementCenterCoordinates(dom, el))
  /\ UNCHANGED <<cmVars, probe, impl, coreVars>>

\* _handlePointerMove(e).
_handlePointerMove(p) ==
  /\ impl = CC
  /\ activeDrawing.active
  /\ activeDrawing' = [activeDrawing EXCEPT !.x2 = p.x, !.y2 = p.y]
  /\ settles(updateConnectionCoordinates(ccState, TempConnection,
                                         IF TempConnection \in DOMAIN svgLines
                                         THEN << svgLines[TempConnection][1],
                                                 svgLines[TempConnection][2], p.x, p.y >>
                                         ELSE <<0, 0, 0, 0>>),
             "_handlePointerMove")
  /\ UNCHANGED <<cmVars, probe, impl, coreVars>>

\* if (toDot) of _handlePointerUp, toDotData being what _getDotData returned:
\* when it is undefined, reading toDotData.side raises a TypeError and the
\* handler ends before this.activeDrawing = null.
pointerUpOnDot(connectionId, toDot, toDotData) ==
  IF toDotData.found
  THEN /\ settles(_completeAndRenderConnection(toDotData.s, connectionId,
                                               activeDrawing.from[1], activeDrawing.from[2],
                                               dom[toDot[1]].scenario,
                                               toDotData.side, toDotData.position),
                  "_handlePointerUp:completed")
       /\ activeDrawing' = NoDrawingCC
  ELSE /\ settles(toDotData.s, "_handlePointerUp:TypeError")
       /\ activeDrawing' = activeDrawing

\* The body of _handlePointerUp, toDot being what _findDotAtPosition returned.
pointerUpAt(connectionId, toDot) ==
  IF toDot # NoElement
  THEN pointerUpOnDot(connectionId, toDot, _getDotData(ccState, toDot))
  ELSE /\ settles(svgRemoveConnection(ccState, TempConnection), "_handlePointerUp:cancelled")
       /\ activeDrawing' = NoDrawingCC

\* _handlePointerUp(e), the pointer released where it last moved to;
\* connectionId is the id generateId returns if a connection is made: it
\* starts with Date.now(), which has moved on since the stored connections
\* got their ids.
_handlePointerUp(connectionId) ==
  /\ impl = CC
  /\ activeDrawing.active
  /\ \A i \in 1..Len(connections) : connections[i].id # connectionId
  /\ pointerUpAt(connectionId,
                 _findDotAtPosition(dom, [x |-> activeDrawing.x2, y |-> activeDrawing.y2],
                                    activeDrawing.from[1]))
  /\ UNCHANGED <<cmVars, probe, impl, coreVars>>

\* The remove button of the dialog a double click on a line opens:
\* removeConnection(modalOverlay.dataset.activeConnection).
clickRemove(connectionId) ==
  /\ impl = CC
  /\ ~activeDrawing.active
  /\ connectionId \in DOMAIN svgLines
  /\ connectionId # TempConnection
  /\ settles(removeConnection(ccState, connectionId), "removeConnection")
  /\ UNCHANGED <<cmVars, activeDrawing, probe, impl, coreVars>>

\* The layouts of the files the user uploads: a layout of three cards with a
\* connection from card 1's RIGHT dot to card 2's LEFT dot; one that lists
\* card 2 only and the same connection; one whose connection list holds a
\* null; one whose connection starts and ends on card 1; one whose connection
\* names the position 0.25 on card 2's LEFT side.
Layouts ==
  { [cards |-> <<1, 2, 3>>, connections |-> << <<1, 1, 2, 3>> >>],
    [cards |-> <<2>>, connections |-> << <<1, 1, 2, 3>> >>],
    [cards |-> <<1, 2>>, connections |-> << <<>> >>],
    [cards |-> <<1, 2, 3>>, connections |-> << <<1, 1, 1, 3>> >>],
    [cards |-> <<1, 2, 3>>, connections |-> << <<1, 1, 2, 3, 16000>> >>] }

NoLayout == [cards |-> <<>>, connections |-> <<>>]

\* createConnectionFromData(conn) reads conn.fromId: the forEach of
\* deserializeAndApplyLayout throws, and its catch block runs, exactly when an
\* entry of layout.connections is null.
throwsTypeError(layout) ==
  \E i \in 1..Len(layout.connections) : layout.connections[i] = <<>>

\* What the load of a layout leaves in `last`: ":roundtrip" marks the load of
\* a file that holds what serializeLayout gives for the present state,
\* ":catch" a load that ended in the catch block.
loadOutcome(layout) ==
  IF layout = serializeLayout(ccState) THEN "deserializeAndApplyLayout:roundtrip"
  ELSE IF throwsTypeError(layout) THEN "deserializeAndApplyLayout:catch"
  ELSE "deserializeAndApplyLayout"

\* reader.onload of _handleFileUpload: the layout read is applied.
readerOnload(layout, ids) ==
  /\ impl = CC
  /\ settles(deserializeAndApplyLayout(ccState, layout, ids), loadOutcome(layout))
  /\ UNCHANGED <<cmVars, activeDrawing, probe, impl, coreVars>>

\* _handleFileUpload(e) with the file read before the next pointer event: the
\* file read is one of Layouts or the layout last written (a saved file, or a
\* file loaded before).
_handleFileUpload(layout, ids) ==
  /\ ~activeDrawing.active
  /\ readerOnload(layout, ids)

\* _handleResetLayout().
_handleResetLayout ==
  /\ impl = CC
  /\ ~activeDrawing.active
  /\ settles(resetLayout(ccState), "resetLayout")
  /\ UNCHANGED <<cmVars, activeDrawing, probe, impl, coreVars>>

\* _handleSaveLayout(): saveLayoutToFile(fileName) serializes the layout.
_handleSaveLayout ==
  /\ impl = CC
  /\ ~activeDrawing.active
  /\ settles([ccState EXCEPT !.stored = serializeLayout(ccState)], "serializeLayout")
  /\ UNCHANGED <<cmVars, activeDrawing, probe, impl, coreVars>>

\* ------------------------------------------------------------ specification

NoProbe == [called |-> FALSE, from |-> 0, p |-> Pt(0, 0), result |-> 0]

SourceDots == { dotIndex(endpoints, sd[1], sd[2]) : sd \in Sources }

Init ==
  /\ impl \in {CM, CJ}
  /\ endpoints = initializeGrid(<<>>, 1)
  /\ lines = <<>>
  /\ lineCounter = 0
  /\ activeDrawing = NoDrawing
  /\ svgLines = <<>>
  /\ svgTemp = 0
  /\ last = "init"
  /\ probe = NoProbe
  /\ dom = <<>>
  /\ _dots = <<>>
  /\ connections = <<>>
  /\ cards = {}
  /\ storedLayout = NoLayout
  /\ _lastConnectionUpdateTime = 0
  /\ dragged = 0
  /\ InitCore

Next ==
  \/ \E d \in SourceDots : startDrawingConnection(d)
  \/ \E p \in Pointers : handlePointerMove(p)
  \/ handlePointerUp
  \/ \E id \in 1..MaxLineCounter : removeConnectionById(id)
  \/ \E rec \in SavedRecords : createConnectionFromSaved(rec)
  \/ clearAllConnections
  \/ \E d \in SourceDots : startDraw(d)
  \/ \E p \in Pointers : move(p)
  \/ up
  \/ \E id \in 1..MaxLineCounter : removeLineById(id)
  \/ \E rec \in SavedRecords : createLineFromSaved(rec)
  \/ clearAllLines

Spec == Init /\ [][Next]_vars

\* The application before LayoutController.initialize: no card element, no
\* connection, nothing registered, no layout in localStorage.
emptyPage ==
  [dom |-> <<>>, dots |-> <<>>, connections |-> <<>>, cards |-> {}, svg |-> <<>>,
   orphans |-> 0, stored |-> NoLayout]

InitCC ==
  /\ impl = CC
  /\ dom = createDefaultCards(emptyPage).dom
  /\ _dots = <<>>
  /\ connections = <<>>
  /\ cards = createDefaultCards(emptyPage).cards
  /\ storedLayout = NoLayout
  /\ _lastConnectionUpdateTime = 0
  /\ dragged = 0
  /\ InitCore
  /\ endpoints = <<>>
  /\ lines = <<>>
  /\ lineCounter = 0
  /\ activeDrawing = NoDrawingCC
  /\ svgLines = <<>>
  /\ svgTemp = 0
  /\ last = "init"
  /\ probe = NoProbe

NextCC ==
  \/ \E el \in CCSources : _handleConnectionStart(el)
  \/ \E p \in CCPointers : _handlePointerMove(p)
  \/ \E connectionId \in ConnIds : _handlePointerUp(connectionId)
  \/ \E connectionId \in ConnIds : clickRemove(connectionId)
  \/ \E layout \in Layouts \cup {storedLayout} :
       \E ids \in [1..Len(layout.connections) -> ConnIds] : _handleFileUpload(layout, ids)
  \/ _handleResetLayout
  \/ _handleSaveLayout

SpecCC == InitCC /\ [][NextCC]_vars

\* ------------------------------------ the snap resolver called on its own

\* The positions the resolver is called at: the release positions and the
\* centre of every registered dot.
ProbePoints == Pointers \cup { getElementCenter(endpoints[i]) : i \in 1..Len(endpoints) }

\* findNearestEndpoint(x, y, fromEndpoint) called with any registered dot as
\* the source.
callFindNearestEndpoint(from, p) ==
  /\ impl = CM
  /\ ~probe.called
  /\ probe' = [called |-> TRUE, from |-> from, p |-> p,
               result |-> findNearestEndpoint(endpoints, p, from)]
  /\ UNCHANGED <<ccVars, impl, endpoints, lines, lineCounter, activeDrawing, svgLines, svgTemp, last, coreVars>>

\* nearestEndpoint(x, y, skip) called with any registered dot as the source.
callNearestEndpoint(from, p) ==
  /\ impl = CJ
  /\ ~probe.called
  /\ probe' = [called |-> TRUE, from |-> from, p |-> p,
               result |-> nearestEndpoint(endpoints, p, from)]
  /\ UNCHANGED <<ccVars, impl, endpoints, lines, lineCounter, activeDrawing, svgLines, svgTemp, last, coreVars>>

\* The dot elements of the workspace.
DotElements ==
  { el \in { <<k, j>> : k \in 1..Len(dom), j \in 1..MaxDots } : el[2] <= Len(dom[el[1]].dots) }

\* The positions _findDotAtPosition is called at: the release positions and
\* the centre of every dot of the workspace.
CCProbePoints == CCPointers \cup { calculateElementCenterCoordinates(dom, el) : el \in DotElements }

\* _findDotAtPosition(x, y, sourceCardId) called with the card of any dot of
\* the workspace as the source card.
callFindDotAtPosition(from, p) ==
  /\ impl = CC
  /\ ~probe.called
  /\ probe' = [called |-> TRUE, from |-> from, p |-> p,
               result |-> _findDotAtPosition(dom, p, dom[from[1]].scenario)]
  /\ UNCHANGED <<ccVars, cmVars, impl, activeDrawing, svgLines, svgTemp, last, coreVars>>

\* The pages the controller's resolver is called on: the default cards, and
\* the default cards after the upload of a layout file.
loadedPage(s) ==
  /\ withinBounds(s)
  /\ dom = s.dom
  /\ _dots = s.dots
  /\ connections = s.connections
  /\ cards = s.cards
  /\ svgLines = s.svg
  /\ svgTemp = s.orphans
  /\ storedLayout = s.stored

InitLoaded ==
  /\ impl = CC
  /\ \/ loadedPage(createDefaultCards(emptyPage))
     \/ \E layout \in Layouts : \E ids \in [1..Len(layout.connections) -> ConnIds] :
          loadedPage(deserializeAndApplyLayout(createDefaultCards(emptyPage), layout, ids))
  /\ endpoints = <<>>
  /\ lines = <<>>
  /\ lineCounter = 0
  /\ activeDrawing = NoDrawingCC
  /\ last = "init"
  /\ probe = NoProbe
  /\ _lastConnectionUpdateTime = 0
  /\ dragged = 0
  /\ InitCore

InitResolve == Init \/ InitLoaded

NextResolve ==
  \/ \E from \in 1..Len(endpoints) : \E p \in ProbePoints : callFindNearestEndpoint(from, p)
  \/ \E from \in 1..Len(endpoints) : \E p \in ProbePoints : callNearestEndpoint(from, p)
  \/ \E from \in DotElements : \E p \in CCProbePoints : callFindDotAtPosition(from, p)

SpecResolve == InitResolve /\ [][NextResolve]_vars

\* ------------------------------------------- the generator on its own

\* Positions along the TOP side of card 1 at which dots are placed besides the
\* default one at 0.5: 0.3, 0.7 and 0.9.
EdgeSamples == << (3 * PosUnit) \div 10, (7 * PosUnit) \div 10, (9 * PosUnit) \div 10 >>

\* For each of those positions: no dot, a free dot or an occupied one.
EdgeFlags == [1..Len(EdgeSamples) -> {"none", "unset", "true"}]

\* connectors.js: the registry of card 1 with the dots of flags on its TOP side.
RECURSIVE edgeRegistry(_, _, _)
edgeRegistry(registry, flags, k) ==
  IF k > Len(EdgeSamples) THEN registry
  ELSE edgeRegistry(IF flags[k] = "none" THEN registry
                    ELSE Append(registry, [card |-> 1, side |-> TOP, left |-> EdgeSamples[k],
                                           top |-> 0, occupied |-> flags[k]]),
                    flags, k + 1)

\* A dot of card 1 (the j-th dot element, the i-th registered dot) is marked
\* occupied, as a commit marks it.
occupy(s, j, i) ==
  [s EXCEPT !.dom[1].dots[j].occupied = "true", !.dots[1][i].occupied = TRUE]

\* A dot is created on card 1's TOP side and registered, as _generateNewDots
\* does it, and marked occupied or not.
placeDot(s, position, flag) ==
  IF flag = "none" THEN s
  ELSE IF flag = "true"
       THEN occupy(pushNewDot(s, 1, TOP, position, <<1, TOP, roundThousandths(position)>>),
                   Len(s.dom[1].dots) + 1, Len(s.dots[1]) + 1)
       ELSE pushNewDot(s, 1, TOP, position, <<1, TOP, roundThousandths(position)>>)

\* ConnectionController.js: the page of card 1 with the dots of flags on its
\* TOP side.
RECURSIVE edgePage(_, _, _)
edgePage(s, flags, k) ==
  IF k > Len(EdgeSamples) THEN s
  ELSE edgePage(placeDot(s, EdgeSamples[k], flags[k]), flags, k + 1)

\* Card 1 alone, its default dots registered, the TOP one occupied or not.
edgeCard(mid) ==
  IF mid
  THEN occupy(_initializeCardDots(createCardModelAndElement(emptyPage, 1), 1), 1, 1)
  ELSE _initializeCardDots(createCardModelAndElement(emptyPage, 1), 1)

InitGenerate ==
  /\ impl \in {CJ, CC}
  /\ \E mid \in BOOLEAN : \E flags \in EdgeFlags :
       IF impl = CJ
       THEN /\ endpoints = edgeRegistry([createConnectorDots(1) EXCEPT
                                           ![1].occupied = IF mid THEN "true" ELSE "unset"],
                                        flags, 1)
            /\ dom = <<>>
            /\ _dots = <<>>
            /\ cards = {}
       ELSE /\ endpoints = <<>>
            /\ dom = edgePage(edgeCard(mid), flags, 1).dom
            /\ _dots = edgePage(edgeCard(mid), flags, 1).dots
            /\ cards = {1}
  /\ lines = <<>>
  /\ lineCounter = 0
  /\ activeDrawing = NoDrawing
  /\ svgLines = <<>>
  /\ svgTemp = 0
  /\ last = "init"
  /\ probe = NoProbe
  /\ connections = <<>>
  /\ storedLayout = NoLayout
  /\ _lastConnectionUpdateTime = 0
  /\ dragged = 0
  /\ InitCore

\* connectors.js: addAdjacentDots(card, occupiedDot) for a dot of the TOP side.
callAddAdjacentDots(d) ==
  /\ impl = CJ
  /\ endpoints[d].side = TOP
  /\ Len(addAdjacentDots(endpoints, d)) <= MaxEdgeDots
  /\ endpoints' = addAdjacentDots(endpoints, d)
  /\ last' = "addAdjacentDots"
  /\ UNCHANGED <<impl, lines, lineCounter, activeDrawing, svgLines, svgTemp, probe, ccVars, coreVars>>

\* ConnectionController.js: _generateNewDots(card) for card 1.
callGenerateNewDots ==
  /\ impl = CC
  /\ Len(_generateNewDots(ccState, 1).dom[1].dots) <= MaxEdgeDots
  /\ becomes(_generateNewDots(ccState, 1))
  /\ last' = "_generateNewDots"
  /\ UNCHANGED <<cmVars, activeDrawing, probe, impl, _lastConnectionUpdateTime, dragged, coreVars>>

NextGenerate ==
  \/ \E d \in 1..Len(endpoints) : callAddAdjacentDots(d)
  \/ callGenerateNewDots

SpecGenerate == InitGenerate /\ [][NextGenerate]_vars

\* ------------------------------------------- the recalculation on its own

\* The connections stored before a recalculation, as (card, side, card, side);
\* <<>> for no connection.
RecalcPairs ==
  { <<>>, <<1, RIGHT, 2, LEFT>>, <<3, LEFT, 2, TOP>>, <<1, RIGHT, 3, LEFT>>, <<2, TOP, 1, LEFT>> }

\* How far, in sub-pixels, the line elements are from the centres of their
\* dots before a recalculation (the geometry changed since the last one).
StaleOffsets == {0, 8 * SubPx, 0 - 24 * SubPx}

\* The store after the connection of a pair is completed in implementation i.
connected(i, st, pair) ==
  IF pair = <<>> THEN st
  ELSE IF i = CM
  THEN finalizeConnection(st.endpoints, st.lines, st.lineCounter, st.svgLines, dotIndex(st.endpoints, pair[1], pair[2]), dotIndex(st.endpoints, pair[3], pair[4]), <<0, 0, 0, 0>>)
  ELSE finishDraw(st.endpoints, st.lines, st.lineCounter, st.svgLines, dotIndex(st.endpoints, pair[1], pair[2]), dotIndex(st.endpoints, pair[3], pair[4]), <<0, 0, 0, 0>>)

\* The line elements of a layer, each moved by an offset.
shifted(svg, offset) ==
  [id \in DOMAIN svg |-> [k \in 1..4 |-> svg[id][k] + offset]]

emptyStore ==
  [lineCounter |-> 0, lines |-> <<>>, endpoints |-> initializeGrid(<<>>, 1), svgLines |-> <<>>]

InitRecalc ==
  /\ impl \in {CM, CJ}
  /\ \E first \in RecalcPairs, second \in RecalcPairs, offset \in StaleOffsets :
       /\ endpoints = connected(impl, connected(impl, emptyStore, first), second).endpoints
       /\ lines = connected(impl, connected(impl, emptyStore, first), second).lines
       /\ lineCounter = connected(impl, connected(impl, emptyStore, first), second).lineCounter
       /\ svgLines = shifted(connected(impl, connected(impl, emptyStore, first), second).svgLines, offset)
  /\ activeDrawing = NoDrawing
  /\ svgTemp = 0
  /\ last = "init"
  /\ probe = NoProbe
  /\ dom = <<>>
  /\ _dots = <<>>
  /\ connections = <<>>
  /\ cards = {}
  /\ storedLayout = NoLayout
  /\ _lastConnectionUpdateTime = 0
  /\ dragged = 0
  /\ InitCore

\* ConnectorManager.js: recalculateAllLines().
callRecalculateAllLines ==
  /\ impl = CM
  /\ svgLines' = recalculateAllLines(lines, endpoints, svgLines)
  /\ last' = IF last \in {"recalculateAllLines", "recalculateAllLines:again"}
             THEN "recalculateAllLines:again" ELSE "recalculateAllLines"
  /\ UNCHANGED <<ccVars, cmVars, activeDrawing, svgTemp, probe, impl, coreVars>>

\* connectors.js: recalcAllLines().
callRecalcAllLines ==
  /\ impl = CJ
  /\ svgLines' = recalculateAllLines(lines, endpoints, svgLines)
  /\ last' = IF last \in {"recalcAllLines", "recalcAllLines:again"}
             THEN "recalcAllLines:again" ELSE "recalcAllLines"
  /\ UNCHANGED <<ccVars, cmVars, activeDrawing, svgTemp, probe, impl, coreVars>>

NextRecalc ==
  \/ callRecalculateAllLines
  \/ callRecalcAllLines

SpecRecalc == InitRecalc /\ [][NextRecalc]_vars

\* ------------------------------------------------------- dragging a card

\* CardController.js: this._connectionUpdateThrottle, in ms.
_connectionUpdateThrottle == 1

\* The readings of Date.now(): the smallest is more than the throttle above
\* the initial _lastConnectionUpdateTime of 0, as every real reading is.
FirstNow == 2

MaxNow == 4

Times == FirstNow..MaxNow

\* The cards that are dragged, and how far from its grid position, in pixels,
\* a move event places a card.
DragCards == {1, 2}

DragOffsets == { <<0, 0>>, <<10, 0>>, <<0, 10>> }

RECURSIVE updateEachFrom(_, _)
updateEachFrom(s, i) ==
  IF i > Len(s.connections) THEN s
  ELSE updateEachFrom(_updateConnectionPosition(s, s.connections[i]), i + 1)

\* _updateAllConnections(): the handler of 'connections:update'.
_updateAllConnections(s) == updateEachFrom(s, 1)

\* renderer.updateStyle(cardElement, {left, top}) on the k-th card.
updateStyle(s, k, x, y) == [s EXCEPT !.dom[k].left = x, !.dom[k].top = y]

\* _handleCardDragMove(data) when Date.now() reads now: 'connections:update'
\* is emitted when more than the throttle has passed since the last emission.
_handleCardDragMove(s, lastTime, now) ==
  IF now - lastTime > _connectionUpdateThrottle THEN _updateAllConnections(s) ELSE s

\* The pointerdown listener of the handle of card id: the move and endDrag
\* listeners are installed.
handlePointerDown(id) ==
  /\ impl = CC
  /\ dragged = 0
  /\ ~activeDrawing.active
  /\ querySelectorCard(dom, id) # 0
  /\ dragged' = id
  /\ last' = "card:dragstart"
  /\ UNCHANGED <<cmVars, dom, _dots, connections, cards, storedLayout, _lastConnectionUpdateTime, activeDrawing, svgLines, svgTemp, probe, impl, coreVars>>

\* The move(moveEvent) of _setupCardEventHandlers placing the dragged card at
\* (x, y): 'card:dragmove' is emitted and handled, then the style of the card
\* element is updated.
cardMove(x, y, now) ==
  /\ impl = CC
  /\ dragged # 0
  /\ querySelectorCard(dom, dragged) # 0
  /\ now >= _lastConnectionUpdateTime
  /\ becomes(updateStyle(_handleCardDragMove(ccState, _lastConnectionUpdateTime, now), querySelectorCard(dom, dragged), x, y))
  /\ _lastConnectionUpdateTime' = IF now - _lastConnectionUpdateTime > _connectionUpdateThrottle
                                  THEN now ELSE _lastConnectionUpdateTime
  /\ last' = "card:dragmove"
  /\ UNCHANGED <<cmVars, activeDrawing, probe, impl, dragged, coreVars>>

\* endDrag(): 'card:dragend' is emitted and _handleCardDragEnd emits
\* 'connections:update'.
endDrag ==
  /\ impl = CC
  /\ dragged # 0
  /\ becomes(_updateAllConnections(ccState))
  /\ dragged' = 0
  /\ last' = "card:dragend"
  /\ UNCHANGED <<cmVars, activeDrawing, probe, impl, _lastConnectionUpdateTime, coreVars>>

NextDrag ==
  \/ \E id \in DragCards : handlePointerDown(id)
  \/ \E offset \in DragOffsets : \E now \in Times :
       cardMove((CardX(dragged) + offset[1]) * SubPx, (CardY(dragged) + offset[2]) * SubPx, now)
  \/ endDrag

SpecDrag == InitLoaded /\ [][NextDrag]_vars

\* ------------------------------------- a file read while a line is drawn

\* The FileReader of _handleFileUpload calls onload when the file is read,
\* which can be after the pointer went down on a dot and before it goes up.
NextUpload ==
  \/ \E el \in CCSources : _handleConnectionStart(el)
  \/ \E p \in CCPointers : _handlePointerMove(p)
  \/ \E connectionId \in ConnIds : _handlePointerUp(connectionId)
  \/ \E layout \in Layouts :
       \E ids \in [1..Len(layout.connections) -> ConnIds] : readerOnload(layout, ids)

SpecUpload == InitCC /\ [][NextUpload]_vars

\* --------------------------------------------- registration on its own

\* The calls of registerEndpoints / registerEndPoints in one run.
MaxRegistrations == 4

\* The state of the module before a card is created.
InitRegister ==
  /\ impl \in {CM, CJ}
  /\ endpoints = <<>>
  /\ lines = <<>>
  /\ lineCounter = 0
  /\ activeDrawing = NoDrawing
  /\ svgLines = <<>>
  /\ svgTemp = 0
  /\ last = "init"
  /\ probe = NoProbe
  /\ dom = <<>>
  /\ _dots = <<>>
  /\ connections = <<>>
  /\ cards = {}
  /\ storedLayout = NoLayout
  /\ _lastConnectionUpdateTime = 0
  /\ dragged = 0
  /\ InitCore

\* ConnectorManager.js: registerEndpoints(cardElement, connectionPoints) with
\* the dots of card c.
callRegisterEndpoints(c) ==
  /\ impl = CM
  /\ Len(endpoints) < MaxRegistrations * Len(dotDefinitions)
  /\ endpoints' = registerEndpoints(endpoints, c)
  /\ last' = "registerEndpoints"
  /\ UNCHANGED <<ccVars, lines, lineCounter, activeDrawing, svgLines, svgTemp, probe, impl, coreVars>>

\* connectors.js: registerEndPoints(card, dots) with the dots of card c.
callRegisterEndPoints(c) ==
  /\ impl = CJ
  /\ Len(endpoints) < MaxRegistrations * Len(dotDefinitions)
  /\ endpoints' = registerEndpoints(endpoints, c)
  /\ last' = "registerEndPoints"
  /\ UNCHANGED <<ccVars, lines, lineCounter, activeDrawing, svgLines, svgTemp, probe, impl, coreVars>>

NextRegister ==
  \/ \E c \in Cards : callRegisterEndpoints(c)
  \/ \E c \in Cards : callRegisterEndPoints(c)

SpecRegister == InitRegister /\ [][NextRegister]_vars

\* ------------------------------------- layouts of more than one connection

\* Layouts whose connections all run between dots the cards have when they
\* are created: two connections between different dots, two that share card
\* 2's LEFT dot, and the same connection twice.
TwoConnectionLayouts ==
  { [cards |-> <<1, 2, 3>>, connections |-> << <<1, 1, 2, 3>>, <<3, 3, 2, 0>> >>],
    [cards |-> <<1, 2, 3>>, connections |-> << <<1, 1, 2, 3>>, <<3, 0, 2, 3>> >>],
    [cards |-> <<1, 2, 3>>, connections |-> << <<1, 1, 2, 3>>, <<1, 1, 2, 3>> >>] }

\* The ids generateId returns within one load are `conn-${Date.now()}-${n}`
\* with n one of 1000 random numbers: any of ConnIds each, equal or not.
NextIds ==
  \/ \E layout \in TwoConnectionLayouts :
       \E ids \in [1..Len(layout.connections) -> ConnIds] : readerOnload(layout, ids)
  \/ \E el \in CCSources : _handleConnectionStart(el)
  \/ \E p \in CCPointers : _handlePointerMove(p)
  \/ \E connectionId \in ConnIds : _handlePointerUp(connectionId)
  \/ \E connectionId \in ConnIds : clickRemove(connectionId)

SpecIds == InitCC /\ [][NextIds]_vars

\* ------------------------------------------- layouts that name positions

\* A saved connection is <<fromId, fromSide, toId, toSide>>, with a toPosition
\* as fifth and a fromPosition as sixth component (0 for one left out).  The
\* layouts: a connection without positions; one followed by a connection to
\* the dot the first generated at 0.25 of card 2's left side; one followed by
\* a connection from the dot the first generated at 0.25 of card 1's right
\* side.
PositionLayouts ==
  { [cards |-> <<1, 2, 3>>, connections |-> << <<1, 1, 2, 3>> >>],
    [cards |-> <<1, 2, 3>>, connections |-> << <<1, 1, 2, 3>>, <<3, 3, 2, 3, PosUnit \div 4>> >>],
    [cards |-> <<1, 2, 3>>,
     connections |-> << <<1, 1, 2, 3>>, <<1, 1, 3, 3, 0, PosUnit \div 4>> >>] }

\* The ids of one load are different from each other here.
NextPositions ==
  \/ \E layout \in PositionLayouts :
       \E ids \in [1..Len(layout.connections) -> ConnIds] :
         /\ \A i, j \in DOMAIN ids : ids[i] = ids[j] => i = j
         /\ readerOnload(layout, ids)
  \/ \E el \in CCSources : _handleConnectionStart(el)
  \/ \E p \in CCPointers : _handlePointerMove(p)
  \/ \E connectionId \in ConnIds : _handlePointerUp(connectionId)
  \/ \E connectionId \in ConnIds : clickRemove(connectionId)

SpecPositions == InitCC /\ [][NextPositions]_vars

\* ------------------------------------------------------------------ claims

\* The resolver of the implementation loaded, applied to a pointer position
\* and a source dot: the index of the dot returned, 0 for none.
Resolve(p, from) ==
  IF impl = CM THEN findNearestEndpoint(endpoints, p, from)
  ELSE nearestEndpoint(endpoints, p, from)

\* Where the pointer is released if the button goes up now.
Pointer == [x |-> activeDrawing.x2, y |-> activeDrawing.y2]

\* A step that is the pointer-up of the active drawing.
IsPointerUp == activeDrawing.active /\ ~activeDrawing'.active

\* The dots of cards other than the source's that lie strictly within the snap
\* radius (24 px) of p.
CandidatesInRadius(p, from) ==
  { i \in 1..Len(endpoints) :
      /\ endpoints[i].card # endpoints[from].card
      /\ HypotLess(getElementCenter(endpoints[i]).x - p.x, getElementCenter(endpoints[i]).y - p.y,
                   24 * SubPx) }

\* C1 (as claimed): every stored connection has its two endpoints on different
\* cards, after any sequence of gestures, loads of saved connections, removals
\* and clears.
C1_NoSelfLoops ==
  /\ \A i \in 1..Len(lines) : endpoints[lines[i].from].card # endpoints[lines[i].to].card
  /\ \A i \in 1..Len(connections) : connections[i].fromCardId # connections[i].toCardId

\* C2: for every pointer position and every source dot, the snap resolver never
\* returns a dot of the source's own card.
C2_NoSelfSnap ==
  /\ (impl \in {CM, CJ} /\ probe.called /\ probe.result # 0) =>
       endpoints[probe.result].card # endpoints[probe.from].card
  /\ (impl = CC /\ probe.called /\ probe.result # NoElement) =>
       dom[probe.result[1]].scenario # dom[probe.from[1]].scenario

\* C2 witness: the resolver was called with the pointer on the centre of a dot
\* of the source's own card that is registered before the source, 24 px or
\* less from a dot of another card, and it returned a dot of another card.
C2_Witness ==
  /\ impl \in {CM, CJ}
  /\ probe.called
  /\ probe.from = dotIndex(endpoints, 1, RIGHT)
  /\ probe.p = Pt(362, 181)
  /\ probe.result = dotIndex(endpoints, 2, LEFT)

\* C3: the resolver returns a dot if and only if some dot of another card is at
\* Euclidean distance strictly less than 24 px from the pointer.
C3_SnapRadius ==
  (impl \in {CM, CJ} /\ probe.called) =>
    ((probe.result # 0) <=> (CandidatesInRadius(probe.p, probe.from) # {}))

\* C3 witness: the pointer is 23 px from the only dot in reach, and that dot is
\* returned.
C3_Witness ==
  /\ impl \in {CM, CJ}
  /\ probe.called
  /\ endpoints[probe.from].card = 1
  /\ probe.p = Pt(549, 33)
  /\ Cardinality(CandidatesInRadius(probe.p, probe.from)) = 1
  /\ probe.result = dotIndex(endpoints, 2, TOP)

\* C4: a returned dot is at minimum distance from the pointer among the dots of
\* other cards, and among those at that distance it is the one registered first.
C4_NearestFirstRegistered ==
  (impl \in {CM, CJ} /\ probe.called /\ probe.result # 0) =>
    \A i \in 1..Len(endpoints) :
      endpoints[i].card # endpoints[probe.from].card =>
        /\ DistSq(getElementCenter(endpoints[probe.result]), probe.p)
             <= DistSq(getElementCenter(endpoints[i]), probe.p)
        /\ DistSq(getElementCenter(endpoints[probe.result]), probe.p)
             = DistSq(getElementCenter(endpoints[i]), probe.p) => probe.result <= i

\* C4 witness: a source on card 3 with the pointer 12 px from card 1's RIGHT
\* dot and 12 px from card 2's LEFT dot; the one registered first is returned.
C4_Witness ==
  /\ impl \in {CM, CJ}
  /\ probe.called
  /\ endpoints[probe.from].card = 3
  /\ probe.p = Pt(362, 181)
  /\ DistSq(getElementCenter(endpoints[dotIndex(endpoints, 1, RIGHT)]), probe.p)
       = DistSq(getElementCenter(endpoints[dotIndex(endpoints, 2, LEFT)]), probe.p)
  /\ probe.result = dotIndex(endpoints, 1, RIGHT)

\* C5: a pointer-up of an active drawing for which the resolver returns a
\* target adds exactly one connection to the store, from the gesture's source
\* dot to the returned target, leaves both dots marked occupied and leaves the
\* connections stored before as they were, in their order.
C5_CommitAddsOneConnection ==
  [][ (IsPointerUp /\ Resolve(Pointer, activeDrawing.from) # 0) =>
        /\ Len(lines') = Len(lines) + 1
        /\ SubSeq(lines', 1, Len(lines)) = lines
        /\ lines'[Len(lines')].from = activeDrawing.from
        /\ lines'[Len(lines')].to = Resolve(Pointer, activeDrawing.from)
        /\ endpoints'[activeDrawing.from].occupied = "true"
        /\ endpoints'[Resolve(Pointer, activeDrawing.from)].occupied = "true" ]_vars

\* C5 witness: a drag from card 1's RIGHT midpoint released near card 2's LEFT
\* midpoint has just been committed: the newest connection goes from side 1 at
\* position 0.5 to side 3 at position 0.5 and both dots are occupied.
C5_Witness ==
  /\ last \in {"finalizeConnection", "finishDraw"}
  /\ lines # <<>>
  /\ endpoints[lines[Len(lines)].from].card = 1
  /\ endpoints[lines[Len(lines)].from].side = RIGHT
  /\ endpoints[lines[Len(lines)].to].card = 2
  /\ endpoints[lines[Len(lines)].to].side = LEFT
  /\ getDotPosition(endpoints[lines[Len(lines)].from]) = Half
  /\ getDotPosition(endpoints[lines[Len(lines)].to]) = Half
  /\ endpoints[lines[Len(lines)].from].occupied = "true"
  /\ endpoints[lines[Len(lines)].to].occupied = "true"

\* C6: from the pointer-down to a pointer-up for which the resolver returns no
\* target, the connection store, every dot's occupied flag and the registered
\* dots stay as they were, and that pointer-up removes the provisional line.
C6_CancelChangesNothing ==
  [][ ((activeDrawing.active \/ activeDrawing'.active)
        /\ ~(IsPointerUp /\ Resolve(Pointer, activeDrawing.from) # 0)) =>
        /\ lines' = lines
        /\ endpoints' = endpoints
        /\ svgLines' = svgLines
        /\ IsPointerUp => svgTemp' = svgTemp - 1 ]_vars

\* C6 witness: a gesture was cancelled while connections are stored, and no
\* provisional line is left in the layer.
C6_Witness ==
  /\ last = "cancelled"
  /\ lines # <<>>
  /\ svgTemp = 0

\* C7 (as claimed): once the controller's pointer-up handler has run for an
\* active drawing, no active drawing remains, whether the gesture commits or
\* cancels and whichever card the dot under the pointer belongs to.
C7_IdleAfterPointerUp ==
  last \in {"_handlePointerUp:completed", "_handlePointerUp:TypeError",
            "_handlePointerUp:cancelled"} => ~activeDrawing.active

\* C8 (as claimed): at most one provisional line is in the layer at any time;
\* a pointer-down during an active drawing adds none.
C8_AtMostOneDrawing == svgTemp <= 1

\* C9 (as claimed): every dot that is the from or the to of a stored connection
\* is marked occupied.
C9_UsedEndpointsOccupied ==
  \A i \in 1..Len(lines) :
    /\ endpoints[lines[i].from].occupied = "true"
    /\ endpoints[lines[i].to].occupied = "true"

\* The (fromCardId, fromSide, fromPosition, toCardId, toSide, toPosition)
\* tuples of a connection set, the positions being those of the dots the
\* connections are attached to.
ConnectionTuples(conns) ==
  { << conns[i].fromCardId, conns[i].fromSide, conns[i].fromAttached,
       conns[i].toCardId, conns[i].toSide, conns[i].toAttached >> : i \in 1..Len(conns) }

\* C10 (as claimed): loading the layout serializeLayout gives for a non-empty
\* connection set yields a connection set with the same tuples.
C10_RoundTrip ==
  [][ (last' = "deserializeAndApplyLayout:roundtrip" /\ connections # <<>>) =>
        ConnectionTuples(connections') = ConnectionTuples(connections) ]_vars

\* The loads of a layout file, by what they leave in `last`.
Loaded == {"deserializeAndApplyLayout", "deserializeAndApplyLayout:roundtrip"}

\* C11 (as claimed): after a load, the store holds no connection whose
\* from-card or to-card is not a card of the page.
C11_MissingCardSkipped ==
  last \in Loaded =>
    \A i \in 1..Len(connections) :
      /\ querySelectorCard(dom, connections[i].fromCardId) # 0
      /\ querySelectorCard(dom, connections[i].toCardId) # 0

\* C12 (as claimed): after a load that failed, the page is exactly the default
\* grid with no connection.
C12_FailedLoadIsDefaultGrid ==
  last = "deserializeAndApplyLayout:catch" =>
    /\ dom = createDefaultCards(emptyPage).dom
    /\ cards = Cards
    /\ connections = <<>>

\* C13 (as claimed): after the load of a layout, every record that names two
\* cards of the layout and a target position has its connection in the store,
\* attached on the target side at that position.
C13_MissingEndpointCreated ==
  last = "deserializeAndApplyLayout" =>
    \A i \in 1..Len(storedLayout.connections) :
      (/\ Len(storedLayout.connections[i]) = 5
       /\ storedLayout.connections[i][1] \in cards
       /\ storedLayout.connections[i][3] \in cards) =>
        \E j \in 1..Len(connections) :
          /\ connections[j].fromCardId = storedLayout.connections[i][1]
          /\ connections[j].fromSide = storedLayout.connections[i][2]
          /\ connections[j].toCardId = storedLayout.connections[i][3]
          /\ connections[j].toSide = storedLayout.connections[i][4]
          /\ connections[j].toAttached = storedLayout.connections[i][5]

\* C14 (as claimed): no two dots registered on the same side of the same card
\* are closer than 0.1 of the side's length.
C14_EndpointDensity ==
  \A c \in DOMAIN _dots :
    \A i, j \in 1..Len(_dots[c]) :
      (i < j /\ _dots[c][i].side = _dots[c][j].side) =>
        Abs(_dots[c][i].position - _dots[c][j].position) >= PosUnit \div 10

\* The positions of the list [0, dots of a card's side in position order, 1].
EdgePositions(c, side) ==
  <<0>> \o [k \in 1..Len(dotsOnSide(endpoints, c, side)) |->
             getDotPosition(endpoints[sortDotsByPosition(endpoints,
                                                         dotsOnSide(endpoints, c, side))[k]])]
        \o <<PosUnit>>

\* Some gap between adjacent positions of that list is above the threshold.
EdgeHasRoom(c, side) ==
  \E k \in 1..(Len(EdgePositions(c, side)) - 1) :
    EdgePositions(c, side)[k + 1] - EdgePositions(c, side)[k] > GapThreshold

\* C15 (as claimed): after a commit, the side of each of the two dots of the
\* new connection (sides 0..3) has a dot that is not occupied, unless no gap
\* of the side is above the threshold.
C15_EdgeKeepsFreeEndpoint ==
  (last \in {"finalizeConnection", "finishDraw"} /\ lines # <<>>) =>
    \A d \in {lines[Len(lines)].from, lines[Len(lines)].to} :
      (endpoints[d].side <= 3 /\ EdgeHasRoom(endpoints[d].card, endpoints[d].side)) =>
        \E i \in 1..Len(endpoints) :
          /\ endpoints[i].card = endpoints[d].card
          /\ endpoints[i].side = endpoints[d].side
          /\ endpoints[i].occupied # "true"

\* The dots on the TOP side of card 1: position and whether occupied.
TopEdge ==
  IF impl = CC
  THEN { [position |-> _dots[1][i].position, occupied |-> _dots[1][i].occupied] :
           i \in { j \in 1..Len(_dots[1]) : _dots[1][j].side = TOP } }
  ELSE { [position |-> getDotPosition(endpoints[i]), occupied |-> isDotOccupied(endpoints[i])] :
           i \in { j \in 1..Len(endpoints) : endpoints[j].card = 1 /\ endpoints[j].side = TOP } }

\* C16 (as claimed): run on a card whose TOP side carries occupied dots at
\* 0.3, 0.5 and 0.7, the generator leaves no dot strictly between 0.3 and 0.5.
C16_NoDotBetween ==
  [][ (/\ last' \in {"addAdjacentDots", "_generateNewDots"}
       /\ TopEdge = { [position |-> p, occupied |-> TRUE] :
                        p \in {(3 * PosUnit) \div 10, Half, (7 * PosUnit) \div 10} }) =>
        \A e \in TopEdge' :
          ~((3 * PosUnit) \div 10 < e.position /\ e.position < Half) ]_vars

\* The centre of the dot at a position of a side of a card.
AttachedCentre(cardId, side, position) ==
  << CardX(cardId) * SubPx + dotPlacement(side, position)[1],
     CardY(cardId) * SubPx + dotPlacement(side, position)[2] >>

\* C17 (as claimed): the line of every stored connection runs between the
\* centres of the two dots the connection was committed between.
C17_LineBetweenItsEndpoints ==
  \A i \in 1..Len(connections) :
    connections[i].id \in DOMAIN svgLines =>
      svgLines[connections[i].id] =
        AttachedCentre(connections[i].fromCardId, connections[i].fromSide,
                       connections[i].fromAttached)
        \o AttachedCentre(connections[i].toCardId, connections[i].toSide,
                          connections[i].toAttached)

AttachedCentreAt(d, cardId, side, position) ==
  << d[querySelectorCard(d, cardId)].left + dotPlacement(side, position)[1],
     d[querySelectorCard(d, cardId)].top + dotPlacement(side, position)[2] >>

\* C19 (as claimed): when the handling of a card move event is over, on every
\* step of a drag and at its end, the line of every stored connection runs
\* between the centres of its two dots where the cards now are.
C19_LinesFollowCardMove ==
  [][ last' \in {"card:dragmove", "card:dragend"} =>
        \A i \in 1..Len(connections') :
          (/\ connections'[i].id \in DOMAIN svgLines'
           /\ querySelectorCard(dom', connections'[i].fromCardId) # 0
           /\ querySelectorCard(dom', connections'[i].toCardId) # 0) =>
            svgLines'[connections'[i].id] =
              AttachedCentreAt(dom', connections'[i].fromCardId, connections'[i].fromSide, connections'[i].fromAttached)
              \o AttachedCentreAt(dom', connections'[i].toCardId, connections'[i].toSide, connections'[i].toAttached) ]_vars

\* C20 (as claimed): when the card the drawing started from is no longer in
\* the workspace, the pointer-up cancels: the drawing ends, the store keeps
\* the connections it had, and no provisional line and no new line is left in
\* the SVG layer.
C20_SourceCardGoneCancels ==
  [][ (/\ activeDrawing.active
       /\ querySelectorCard(dom, activeDrawing.from[1]) = 0
       /\ last' \in {"_handlePointerUp:completed", "_handlePointerUp:cancelled", "_handlePointerUp:TypeError"}) =>
        /\ ~activeDrawing'.active
        /\ connections' = connections
        /\ TempConnection \notin DOMAIN svgLines'
        /\ DOMAIN svgLines' \subseteq DOMAIN svgLines
        /\ svgTemp' <= svgTemp ]_vars

\* C21 (as claimed): registering a dot that is already registered changes
\* nothing, so the registry never holds two dots of the same card with the
\* same side and the same position.
C21_EndpointRegisteredOnce ==
  \A i, j \in 1..Len(endpoints) :
    (/\ endpoints[i].card = endpoints[j].card
     /\ endpoints[i].side = endpoints[j].side
     /\ endpoints[i].left = endpoints[j].left
     /\ endpoints[i].top = endpoints[j].top) => i = j

\* C22 (as claimed): creating a connection never overwrites a stored one, so
\* a load that went through stores one connection for each connection of the
\* layout (the layout is the one written to localStorage by the load).
C22_LoadStoresEveryConnection ==
  last = "deserializeAndApplyLayout" => Len(connections) = Len(storedLayout.connections)

\* C23: no operation on connections takes a dot out of the registry: every
\* step leaves each registered dot in its place with its card, side and
\* position, and removing one connection or clearing them all changes nothing
\* of the registry but occupied flags, from "true" to "false".
C23_EndpointsOnlyGrow ==
  [][ /\ Len(endpoints') >= Len(endpoints)
      /\ \A i \in 1..Len(endpoints) :
           /\ endpoints'[i].card = endpoints[i].card
           /\ endpoints'[i].side = endpoints[i].side
           /\ endpoints'[i].left = endpoints[i].left
           /\ endpoints'[i].top = endpoints[i].top
      /\ last' \in {"removeConnectionById", "removeLineById", "clearAllConnections", "clearAllLines"} =>
           /\ Len(endpoints') = Len(endpoints)
           /\ \A i \in 1..Len(endpoints) :
                \/ endpoints'[i] = endpoints[i]
                \/ /\ endpoints[i].occupied = "true"
                   /\ endpoints'[i] = [endpoints[i] EXCEPT !.occupied = "false"] ]_vars

\* The connections made are gone again, their dots are unoccupied and every
\* dot of the three cards is still registered.
C23_Witness ==
  /\ last \in {"removeConnectionById", "removeLineById", "clearAllConnections", "clearAllLines"}
  /\ lines = <<>>
  /\ lineCounter = MaxLineCounter
  /\ \E i \in 1..Len(endpoints) : endpoints[i].occupied = "false"
  /\ Len(endpoints) = Cardinality(Cards) * Len(dotDefinitions)

\* C24: after clearAllConnections / clearAllLines no connection is stored and
\* no registered dot is occupied, and the registry holds the dots it held,
\* each with its card, side and position.
C24_ClearEmptiesStore ==
  [][ last' \in {"clearAllConnections", "clearAllLines"} =>
        /\ lines' = <<>>
        /\ Len(endpoints') = Len(endpoints)
        /\ \A i \in 1..Len(endpoints) :
             /\ endpoints'[i].occupied # "true"
             /\ endpoints'[i].card = endpoints[i].card
             /\ endpoints'[i].side = endpoints[i].side
             /\ endpoints'[i].left = endpoints[i].left
             /\ endpoints'[i].top = endpoints[i].top ]_vars

\* A clear that found two connections stored: the store is empty and the dots
\* they used are unoccupied.
C24_Witness ==
  /\ last \in {"clearAllConnections", "clearAllLines"}
  /\ lines = <<>>
  /\ lineCounter = MaxLineCounter
  /\ svgLines = <<>>
  /\ Cardinality({i \in 1..Len(endpoints) : endpoints[i].occupied = "false"}) >= 3

\* C25 (as claimed): an occupied dot is still a snap target: when the dot of
\* another card nearest to the pointer is occupied and less than 24 px away,
\* _findDotAtPosition returns it.
C25_OccupiedStillOffered ==
  (impl = CC /\ probe.called) =>
    \A el \in DotElements :
      (/\ dom[el[1]].scenario # dom[probe.from[1]].scenario
       /\ dom[el[1]].dots[el[2]].occupied = "true"
       /\ DistSq(calculateElementCenterCoordinates(dom, el), probe.p)
            < (SNAP_DISTANCE * SubPx) * (SNAP_DISTANCE * SubPx)
       /\ \A other \in DotElements \ {el} :
            dom[other[1]].scenario # dom[probe.from[1]].scenario =>
              DistSq(calculateElementCenterCoordinates(dom, el), probe.p)
                < DistSq(calculateElementCenterCoordinates(dom, other), probe.p)) =>
        probe.result = el

\* The position a saved connection names for an end, 0.5 when it names none;
\* n is 5 for the to end and 6 for the from end.
SavedPosition(connectionData, n) ==
  IF Len(connectionData) >= n /\ connectionData[n] # 0 THEN connectionData[n] ELSE Half

\* C26 (as claimed): after a load every connection of the layout is stored,
\* attached at its from end to the dot at the saved fromPosition and at its to
\* end to the dot at the saved toPosition, 0.5 for a position left out.
C26_SavedPositionsHonoured ==
  last = "deserializeAndApplyLayout" =>
    \A i \in 1..Len(storedLayout.connections) :
      /\ i <= Len(connections)
      /\ connections[i].fromAttached = SavedPosition(storedLayout.connections[i], 6)
      /\ connections[i].toAttached = SavedPosition(storedLayout.connections[i], 5)

\* The connection names the card and the side as its from end or its to end.
EndsAt(connection, cardId, side) ==
  \/ connection.fromCardId = cardId /\ connection.fromSide = side
  \/ connection.toCardId = cardId /\ connection.toSide = side

\* C27: between operations of ConnectionController every dot marked occupied,
\* by its data-occupied attribute or by its registry flag, is the from end or
\* the to end of at least one stored connection (same card, same side).
C27_OccupiedIsConnected ==
  impl = CC =>
    /\ \A k \in 1..Len(dom) : \A j \in 1..Len(dom[k].dots) :
         dom[k].dots[j].occupied = "true" =>
           \E i \in 1..Len(connections) :
             EndsAt(connections[i], dom[k].scenario, dom[k].dots[j].side)
    /\ \A cardId \in DOMAIN _dots : \A j \in 1..Len(_dots[cardId]) :
         _dots[cardId][j].occupied =>
           \E i \in 1..Len(connections) :
             EndsAt(connections[i], cardId, _dots[cardId][j].side)

\* ------------------------------------------------- removal in each connector

\* removeConnection(connectionId) called with any id, as the Remove button of
\* the dialog calls it with the id the dialog holds.
callRemoveConnection(connectionId) ==
  /\ impl = CC
  /\ ~activeDrawing.active
  /\ settles(removeConnection(ccState, connectionId), "removeConnection")
  /\ UNCHANGED <<cmVars, activeDrawing, probe, impl, coreVars>>

InitRemove == Init \/ InitCC

NextRemove ==
  \/ \E d \in SourceDots : startDrawingConnection(d)
  \/ \E p \in Pointers : handlePointerMove(p)
  \/ handlePointerUp
  \/ \E id \in 1..MaxLineCounter : removeConnectionById(id)
  \/ \E rec \in SavedRecords : createConnectionFromSaved(rec)
  \/ \E d \in SourceDots : startDraw(d)
  \/ \E p \in Pointers : move(p)
  \/ up
  \/ \E id \in 1..MaxLineCounter : removeLineById(id)
  \/ \E rec \in SavedRecords : createLineFromSaved(rec)
  \/ \E layout \in TwoConnectionLayouts :
       \E ids \in [1..Len(layout.connections) -> ConnIds] : readerOnload(layout, ids)
  \/ \E el \in CCSources : _handleConnectionStart(el)
  \/ \E p \in CCPointers : _handlePointerMove(p)
  \/ \E connectionId \in ConnIds : _handlePointerUp(connectionId)
  \/ \E connectionId \in ConnIds : callRemoveConnection(connectionId)

SpecRemove == InitRemove /\ [][NextRemove]_vars

\* The stored connections without the one of the id, the others in order.
Without(stored, id) == SelectSeq(stored, LAMBDA c: c.id # id)

\* No stored connection has the id.
Unknown(stored, id) == \A i \in 1..Len(stored) : stored[i].id # id

\* C28: a removal by id, in each of the three connectors, deletes exactly the
\* stored connection of that id and leaves the other stored connections (id,
\* endpoints, order) as they were; with no stored connection of that id the
\* call changes no stored connection, no dot and no line element.
C28_RemovalDeletesOnlyThatOne ==
  [][ /\ \A id \in 1..MaxLineCounter :
           removeConnectionById(id) \/ removeLineById(id) =>
             /\ lines' = Without(lines, id)
             /\ Len(lines') >= Len(lines) - 1
             /\ Unknown(lines, id) => UNCHANGED <<lines, endpoints, svgLines, svgTemp, lineCounter>>
      /\ \A connectionId \in ConnIds :
           callRemoveConnection(connectionId) =>
             /\ connections' = Without(connections, connectionId)
             /\ Len(connections') >= Len(connections) - 1
             /\ Unknown(connections, connectionId) =>
                  UNCHANGED <<connections, dom, _dots, svgLines, svgTemp, cards>> ]_vars

\* The first of two stored connections was removed and the second is left.
C28_Witness ==
  /\ impl = CM
  /\ last = "removeConnectionById"
  /\ lineCounter = 2
  /\ Len(lines) = 1
  /\ lines[1].id = 2

\* ------------------------------------------- the midpoint rule on its own

\* The positions of the occupied dots of a side: multiples of 0.05, so that
\* gaps below, at and above 0.1 occur.
PositionGrid == { k * (PosUnit \div 20) : k \in 0..20 }

\* The occupied dots of a side as _generateNewDots hands them over: sorted by
\* position.
SortedPositions ==
  { ps \in UNION { [1..n -> PositionGrid] : n \in 0..MaxOccupied } :
      \A i \in 1..(Len(ps) - 1) : ps[i] <= ps[i + 1] }

InitMidpoints ==
  /\ impl = CC
  /\ dom = createDefaultCards(emptyPage).dom
  /\ _dots = <<>>
  /\ connections = <<>>
  /\ cards = createDefaultCards(emptyPage).cards
  /\ storedLayout = NoLayout
  /\ _lastConnectionUpdateTime = 0
  /\ dragged = 0
  /\ InitCore
  /\ endpoints = <<>>
  /\ lines = <<>>
  /\ lineCounter = 0
  /\ activeDrawing = NoDrawingCC
  /\ svgLines = <<>>
  /\ svgTemp = 0
  /\ last = "init"
  /\ \E ps \in SortedPositions : probe = [called |-> FALSE, positions |-> ps, result |-> <<>>]

\* _calculateNewDotPositions(occupiedDots, side) for dots at the positions.
callCalculateNewDotPositions ==
  /\ impl = CC
  /\ ~probe.called
  /\ probe' = [probe EXCEPT
                 !.called = TRUE,
                 !.result = _calculateNewDotPositions(
                              [i \in 1..Len(probe.positions) |-> [position |-> probe.positions[i]]])]
  /\ last' = "_calculateNewDotPositions"
  /\ UNCHANGED <<impl, cmVars, ccVars, activeDrawing, svgLines, svgTemp, coreVars>>

NextMidpoints == callCalculateNewDotPositions

SpecMidpoints == InitMidpoints /\ [][NextMidpoints]_vars

\* The list [0, the given positions, 1].
Bracketed(positions) == <<0>> \o positions \o <<PosUnit>>

\* The indices i of the list whose gap to the next entry exceeds 0.1.
WideGaps(list) == { i \in 1..(Len(list) - 1) : list[i + 1] - list[i] > PosUnit \div 10 }

\* C29: _calculateNewDotPositions returns, in order, exactly the midpoints of
\* the adjacent pairs of [0, positions, 1] whose gap is strictly greater than
\* 0.1: one entry per such pair and no other, so that a gap of exactly 0.1
\* gives no midpoint and no gap above 0.1 gives the empty list.
C29_MidpointsOfWideGaps ==
  last = "_calculateNewDotPositions" =>
    /\ Len(probe.result) = Cardinality(WideGaps(Bracketed(probe.positions)))
    /\ \A i \in WideGaps(Bracketed(probe.positions)) :
         2 * probe.result[Cardinality({ j \in WideGaps(Bracketed(probe.positions)) : j <= i })]
           = Bracketed(probe.positions)[i] + Bracketed(probe.positions)[i + 1]

\* The function was called on a side with a gap of exactly 0.1 and a wider
\* gap, and returned the midpoint of the wider gap only.
C29_Witness ==
  /\ last = "_calculateNewDotPositions"
  /\ \E i \in 1..(Len(Bracketed(probe.positions)) - 1) :
       Bracketed(probe.positions)[i + 1] - Bracketed(probe.positions)[i] = PosUnit \div 10
  /\ Len(probe.result) = 1
  /\ Len(probe.positions) = 3

\* ------------------------------------------ the generator after each commit

\* One card with dots along its TOP side, in each of the three connectors.
InitCorners ==
  /\ impl \in {CM, CJ, CC}
  /\ \E mid \in BOOLEAN : \E flags \in EdgeFlags :
       IF impl \in {CM, CJ}
       THEN /\ endpoints = edgeRegistry([createConnectorDots(1) EXCEPT
                                           ![1].occupied = IF mid THEN "true" ELSE "unset"],
                                        flags, 1)
            /\ dom = <<>>
            /\ _dots = <<>>
            /\ cards = {}
       ELSE /\ endpoints = <<>>
            /\ dom = edgePage(edgeCard(mid), flags, 1).dom
            /\ _dots = edgePage(edgeCard(mid), flags, 1).dots
            /\ cards = {1}
  /\ lines = <<>>
  /\ lineCounter = 0
  /\ activeDrawing = NoDrawing
  /\ svgLines = <<>>
  /\ svgTemp = 0
  /\ last = "init"
  /\ probe = NoProbe
  /\ connections = <<>>
  /\ storedLayout = NoLayout
  /\ _lastConnectionUpdateTime = 0
  /\ dragged = 0
  /\ InitCore

\* ConnectorManager.js finalizeConnection, for one end d of the connection:
\* markDotAsOccupied(dotElement), then addIntermediateDots(cardElement,
\* dotElement).
markAndAddIntermediateDots(d) ==
  /\ impl = CM
  /\ endpoints' = addIntermediateDots(markDotAsOccupied(endpoints, d), d)
  /\ last' = "addIntermediateDots"
  /\ UNCHANGED <<impl, lines, lineCounter, activeDrawing, svgLines, svgTemp, probe, ccVars, coreVars>>

\* connectors.js finishDraw, for one end d of the connection:
\* markDotAsOccupied(el), then addAdjacentDots(card, el).
markAndAddAdjacentDots(d) ==
  /\ impl = CJ
  /\ Len(addAdjacentDots(markDotAsOccupied(endpoints, d), d)) <= MaxEdgeDots
  /\ endpoints' = addAdjacentDots(markDotAsOccupied(endpoints, d), d)
  /\ last' = "addAdjacentDots"
  /\ UNCHANGED <<impl, lines, lineCounter, activeDrawing, svgLines, svgTemp, probe, ccVars, coreVars>>

NextCorners ==
  \/ \E d \in 1..Len(endpoints) : markAndAddIntermediateDots(d)
  \/ \E d \in 1..Len(endpoints) : markAndAddAdjacentDots(d)
  \/ callGenerateNewDots

SpecCorners == InitCorners /\ [][NextCorners]_vars

\* The sides of the four edges.
EdgeSides == 0..3

\* C30: no step of a generator adds a dot on a corner side (4..7): every dot
\* a step adds, to the registry of ConnectorManager.js or connectors.js or to
\* a card and this._dots of ConnectionController.js, has a side in 0..3, and
\* the dots there were keep their card and side; so a commit on a corner dot
\* leaves its corner with the one dot it had.
C30_GeneratedOnEdgesOnly ==
  [][ /\ Len(endpoints') >= Len(endpoints)
      /\ \A i \in 1..Len(endpoints') :
           IF i <= Len(endpoints)
           THEN endpoints'[i].side = endpoints[i].side /\ endpoints'[i].card = endpoints[i].card
           ELSE endpoints'[i].side \in EdgeSides
      /\ \A k \in 1..Len(dom') : \A j \in 1..Len(dom'[k].dots) :
           IF k <= Len(dom) /\ j <= Len(dom[k].dots)
           THEN dom'[k].dots[j].side = dom[k].dots[j].side
           ELSE dom'[k].dots[j].side \in EdgeSides
      /\ \A cardId \in DOMAIN _dots' : \A j \in 1..Len(_dots'[cardId]) :
           IF cardId \in DOMAIN _dots /\ j <= Len(_dots[cardId])
           THEN _dots'[cardId][j].side = _dots[cardId][j].side
           ELSE _dots'[cardId][j].side \in EdgeSides ]_vars

\* A corner dot was committed on, its corner has that one dot, and the
\* generator has added dots to the card.
C30_Witness ==
  /\ impl = CJ
  /\ last = "addAdjacentDots"
  /\ Len(endpoints) > Len(dotDefinitions) + Len(EdgeSamples)
  /\ \E i \in 1..Len(endpoints) :
       /\ endpoints[i].side \notin EdgeSides
       /\ endpoints[i].occupied = "true"
       /\ Cardinality({ j \in 1..Len(endpoints) : endpoints[j].side = endpoints[i].side }) = 1

\* ------------------------------------------------------------- the start-up

\* The page at DOMContentLoaded of a first visit: no card, nothing in
\* localStorage, no event bus yet.
InitStartup ==
  /\ impl = CC
  /\ dom = <<>>
  /\ _dots = <<>>
  /\ connections = <<>>
  /\ cards = {}
  /\ storedLayout = NoLayout
  /\ _lastConnectionUpdateTime = 0
  /\ dragged = 0
  /\ endpoints = <<>>
  /\ lines = <<>>
  /\ lineCounter = 0
  /\ activeDrawing = NoDrawingCC
  /\ svgLines = <<>>
  /\ svgTemp = 0
  /\ last = "init"
  /\ probe = NoProbe
  /\ pc = "initApp"
  /\ _events = <<>>
  /\ delivered = <<>>
  /\ dialogWired = FALSE
  /\ InitLogger
  /\ InitStateManager

\* The variables no statement of the start-up before
\* LayoutController.initialize changes.
pageVars ==
  <<impl, cmVars, ccVars, activeDrawing, svgLines, svgTemp, probe>>

\* initApp: new StateManager(), new EventBus(), window.eventBus = eventBus.
newEventBus ==
  /\ pc = "initApp"
  /\ _events' = <<>>
  /\ pc' = "domRenderer.initialize"
  /\ last' = "new EventBus"
  /\ UNCHANGED <<loggerVars, pageVars, delivered, dialogWired, stateVars>>

\* DOMRenderer.initialize(), called by initApp and again by
\* AppController.initializeApplication: the elements are cached, the modal
\* overlay created, and window.eventBus.emit('dom:initialized') calls the
\* callbacks subscribed; _setupDOMEvents finds the overlay and puts the
\* listeners on its buttons.
DOMRendererInitialize ==
  /\ pc \in {"domRenderer.initialize", "renderer.initialize"}
  /\ _events' = emit(_events, "dom:initialized").events
  /\ delivered' = delivered \o emit(_events, "dom:initialized").delivered
  /\ dialogWired' =
       (dialogWired \/ \E k \in 1..Len(emit(_events, "dom:initialized").delivered) :
                         emit(_events, "dom:initialized").delivered[k] = "_setupDOMEvents")
  /\ pc' = IF pc = "domRenderer.initialize" THEN "new CardController"
           ELSE "connectionController.initialize"
  /\ last' = "DOMRenderer.initialize"
  /\ UNCHANGED <<loggerVars, pageVars, stateVars>>

\* The constructors of the controllers: CardController._setupEvents
\* subscribes to the three card events; then appController.initializeApplication().
newCardController ==
  /\ pc = "new CardController"
  /\ _events' = on(on(on(_events, "card:dragstart", "_handleCardDragStart"),
                      "card:dragmove", "_handleCardDragMove"),
                   "card:dragend", "_handleCardDragEnd")
  /\ pc' = "renderer.initialize"
  /\ last' = "new CardController"
  /\ UNCHANGED <<loggerVars, pageVars, delivered, dialogWired, stateVars>>

\* ConnectionController.initialize(): _setupConnectionEvents, then
\* this.eventBus.on('dom:initialized', this._setupDOMEvents.bind(this)).
connectionControllerInitialize ==
  /\ pc = "connectionController.initialize"
  /\ _events' = on(on(on(_events, "connection:start", "_handleConnectionStart"),
                      "connections:update", "_updateAllConnections"),
                   "dom:initialized", "_setupDOMEvents")
  /\ pc' = "layoutController.initialize"
  /\ last' = "ConnectionController.initialize"
  /\ UNCHANGED <<loggerVars, pageVars, delivered, dialogWired, stateVars>>

\* LayoutController.initialize() with no saved layout:
\* this.cardController.createDefaultCards().
layoutControllerInitialize ==
  /\ pc = "layoutController.initialize"
  /\ settles(createDefaultCards(ccState), "LayoutController.initialize")
  /\ pc' = "running"
  /\ UNCHANGED <<loggerVars, cmVars, activeDrawing, probe, impl, _events, delivered, dialogWired, stateVars>>

\* The statements of the start-up, which run to their end in one task.
StartupStep ==
  \/ newEventBus
  \/ DOMRendererInitialize
  \/ newCardController
  \/ connectionControllerInitialize
  \/ layoutControllerInitialize

\* The start-up, then the gestures and uploads of the running application.
NextStartup ==
  \/ newEventBus
  \/ DOMRendererInitialize
  \/ newCardController
  \/ connectionControllerInitialize
  \/ layoutControllerInitialize
  \/ pc = "running" /\ \E el \in CCSources : _handleConnectionStart(el)
  \/ pc = "running" /\ \E p \in CCPointers : _handlePointerMove(p)
  \/ pc = "running" /\ \E connectionId \in ConnIds : _handlePointerUp(connectionId)
  \/ pc = "running" /\ \E layout \in Layouts :
       \E ids \in [1..Len(layout.connections) -> ConnIds] : _handleFileUpload(layout, ids)

SpecStartup == InitStartup /\ [][NextStartup]_vars

SpecStartupLive == SpecStartup /\ WF_vars(StartupStep)

\* C31: during the start-up the 'dom:initialized' callback of
\* ConnectionController, _setupDOMEvents, eventually runs and puts the
\* listeners on the Remove and Close buttons of the dialog.
C31_DomHandlerRuns == <>dialogWired

\* ------------------------------------ connectors.js: one gesture at a time

InitGestures == Init /\ impl = CJ

\* Pointer events arrive per gesture as one pointer-down, pointer-moves, one
\* pointer-up: no pointer-down while a drawing is active.
NextGestures ==
  \/ ~activeDrawing.active /\ \E d \in SourceDots : startDraw(d)
  \/ \E p \in Pointers : move(p)
  \/ up
  \/ \E id \in 1..MaxLineCounter : removeLineById(id)
  \/ \E rec \in SavedRecords : createLineFromSaved(rec)
  \/ clearAllLines

SpecGestures == InitGestures /\ [][NextGestures]_vars

\* C32: in connectors.js, with one gesture at a time, whenever no drawing is
\* active the line elements of the SVG layer are the lines of the stored
\* connections, one for each: no provisional line is left, every line
\* element carries the id of a stored line, every stored line has its
\* element, and no two stored lines share an id.
C32_LayerShowsStoredLines ==
  impl = CJ /\ ~activeDrawing.active =>
    /\ svgTemp = 0
    /\ DOMAIN svgLines = { lines[i].id : i \in 1..Len(lines) }
    /\ Cardinality(DOMAIN svgLines) = Len(lines)

\* Two lines were stored and the first was removed: the layer holds the line
\* of the second alone.
C32_Witness ==
  /\ impl = CJ
  /\ last = "removeLineById"
  /\ lineCounter = 2
  /\ Len(lines) = 1
  /\ lines[1].id = 2
  /\ DOMAIN svgLines = {2}

\* C33: the ids issued from the line counter only increase and none is issued
\* twice: the counter never goes down, every stored id is at most the
\* counter, and a connection a step adds (drawn or recreated from saved
\* data) gets the id counter + 1, above every id issued before, removed and
\* cleared ones included.
C33_IdsNeverReused ==
  [][ /\ lineCounter' >= lineCounter
      /\ \A i \in 1..Len(lines) : lines[i].id <= lineCounter
      /\ Len(lines') > Len(lines) =>
           /\ lineCounter' = lineCounter + 1
           /\ lines'[Len(lines')].id = lineCounter'
           /\ \A i \in 1..Len(lines) : lines'[i] = lines[i] ]_vars

\* After the connection of id 1 was removed or cleared, the next connection
\* of ConnectorManager.js has got the id 2.
C33_Witness ==
  /\ impl = CM
  /\ last \in {"finalizeConnection", "createConnectionFromSaved"}
  /\ Len(lines) = 1
  /\ lines[1].id = 2

\* -------------------------------------------------------------- StateManager

\* Cap on the objects allocated in a session of the state manager.
MaxObjects == 5

\* Cap on the subscriptions made in a session.
MaxSubscriberId == 2

\* A number and a reference to the object at an address, as values of keys.
Num(n) == [t |-> "number", v |-> n]

Ref(a) == [t |-> "object", v |-> a]

\* current[key] && typeof current[key] === 'object'.
isObject(value) == value.t = "object"

\* A path is the sequence of its keys; '' is the empty sequence.
\* path.split('.'): '' splits into the one key ''.
split(path) == IF path = <<>> THEN <<"">> ELSE path

\* parts.join('.'): no key is left of '' once its one key is popped.
join(parts) == IF parts = <<"">> THEN <<>> ELSE parts

\* The reduce of getState(path) from the i-th key on.
RECURSIVE getFrom(_, _, _, _)
getFrom(h, obj, path, i) ==
  IF i > Len(path) THEN obj
  ELSE getFrom(h, IF isObject(obj) /\ h[obj.v][path[i]] # Undefined
                  THEN h[obj.v][path[i]] ELSE Undefined,
               path, i + 1)

\* getState(path) for the state rooted at root.
getState(h, root, path) == getFrom(h, Ref(root), path, 1)

\* Variant of the loop of setState that walks into the objects of the state
\* without cloning them.
RECURSIVE navigate_InPlace(_, _, _, _)
navigate_InPlace(h, current, parts, i) ==
  IF i > Len(parts) - 1 THEN [heap |-> h, current |-> current]
  ELSE IF isObject(h[current][parts[i]])
       THEN navigate_InPlace(h, h[current][parts[i]].v, parts, i + 1)
       ELSE navigate_InPlace([Append(h, EmptyObject) EXCEPT ![current][parts[i]] = Ref(Len(h) + 1)],
                             Len(h) + 1, parts, i + 1)

\* The for loop of setState: current[key] becomes {} or a clone of the object
\* it was, at a new address, and current moves into it.
RECURSIVE navigate(_, _, _, _)
navigate(h, current, parts, i) ==
  IF i > Len(parts) - 1 THEN [heap |-> h, current |-> current]
  ELSE navigate([Append(h, IF isObject(h[current][parts[i]])
                           THEN h[h[current][parts[i]].v] ELSE EmptyObject)
                   EXCEPT ![current][parts[i]] = Ref(Len(h) + 1)],
                Len(h) + 1, parts, i + 1)

\* The ids of the subscriptions on a path, as Object.values lists their
\* callbacks: by ascending id.
idsOn(subs, path) ==
  [k \in 1..Len(SelectSeq(subs, LAMBDA s: s.path = path)) |->
     SelectSeq(subs, LAMBDA s: s.path = path)[k].id]

\* The while loop of _notifySubscribers: parts.pop(), then the subscribers of
\* parts.join('.').
RECURSIVE notifyParents(_, _)
notifyParents(subs, parts) ==
  IF Len(parts) = 0 THEN <<>>
  ELSE idsOn(subs, join(SubSeq(parts, 1, Len(parts) - 1)))
       \o notifyParents(subs, SubSeq(parts, 1, Len(parts) - 1))

\* _notifySubscribers(changedPath): the callbacks called, in order.
_notifySubscribers(subs, changedPath) ==
  idsOn(subs, changedPath) \o notifyParents(subs, split(changedPath)) \o idsOn(subs, <<>>)

\* Variant of the end of setState without the comparison: the new state is
\* always installed and the subscribers always notified.
assignLastKey_Always(h, root, subs, nav, path, value) ==
  [heap |-> [nav.heap EXCEPT ![nav.current][path[Len(path)]] = value],
   root |-> Len(h) + 1,
   notified |-> _notifySubscribers(subs, path),
   changed |-> TRUE]

\* The end of setState: if (current[lastKey] !== value) the value is set,
\* this._state = newState and the subscribers are notified; otherwise
\* newState and the objects made for it are dropped with the call.
assignLastKey(h, root, subs, nav, path, value) ==
  IF nav.heap[nav.current][path[Len(path)]] # value
  THEN [heap |-> [nav.heap EXCEPT ![nav.current][path[Len(path)]] = value],
        root |-> Len(h) + 1,
        notified |-> _notifySubscribers(subs, path),
        changed |-> TRUE]
  ELSE [heap |-> h, root |-> root, notified |-> <<>>, changed |-> FALSE]

\* setState(path, value): the root case installs { ...value }; the other
\* paths start from newState = { ...this._state } at a new address.
setState(h, root, subs, path, value) ==
  IF path = <<>>
  THEN [heap |-> Append(h, IF isObject(value) THEN h[value.v] ELSE EmptyObject),
        root |-> Len(h) + 1,
        notified |-> _notifySubscribers(subs, <<>>),
        changed |-> TRUE]
  ELSE assignLastKey(h, root, subs, navigate(Append(h, h[root]), Len(h) + 1, path, 1),
                     path, value)

\* The paths of the calls: '', 'cards', 'cards.1', 'host' and 'host.1'.
StatePaths == { <<>>, <<"cards">>, <<"cards", "1">>, <<"host">>, <<"host", "1">> }

\* The values a caller passes that it does not allocate: numbers, undefined,
\* and what getState returned for a path.
heldValues ==
  { Num(1), Num(2), Undefined } \cup { getState(heap, _state, path) : path \in StatePaths \ {<<>>} }

\* The objects a caller builds for a call: {} and { 1: 1 }.
NewObjects == { EmptyObject, [EmptyObject EXCEPT !["1"] = Num(1)] }

\* The result res of the one setState call of a session becomes the state,
\* the call being recorded.
installs(res, path, value) ==
  /\ ~probe.called
  /\ Len(res.heap) <= MaxObjects
  /\ heap' = res.heap
  /\ _state' = res.root
  /\ notified' = res.notified
  /\ probe' = [called |-> TRUE, path |-> path, value |-> value]
  /\ last' = IF res.changed THEN "setState" ELSE "setState:same"
  /\ UNCHANGED <<loggerVars, impl, cmVars, ccVars, activeDrawing, svgLines, svgTemp, pc, _events, delivered,
                 dialogWired, _subscribers, _nextSubscriberId>>

\* stateManager.setState(path, value) with a value the caller holds.
callSetState(path, value) ==
  installs(setState(heap, _state, _subscribers, path, value), path, value)

\* stateManager.setState(path, { ... }) with an object the caller builds.
callSetStateNew(path, object) ==
  installs(setState(Append(heap, object), _state, _subscribers, path, Ref(Len(heap) + 1)),
           path, Ref(Len(heap) + 1))

\* stateManager.subscribe(path, callback).
callSubscribe(path) ==
  /\ _nextSubscriberId <= MaxSubscriberId
  /\ _subscribers' = Append(_subscribers, [id |-> _nextSubscriberId, path |-> path])
  /\ _nextSubscriberId' = _nextSubscriberId + 1
  /\ last' = "subscribe"
  /\ UNCHANGED <<loggerVars, impl, cmVars, ccVars, activeDrawing, svgLines, svgTemp, probe, pc, _events,
                 delivered, dialogWired, heap, _state, notified>>

\* stateManager.unsubscribe(id).
callUnsubscribe(id) ==
  /\ \E k \in 1..Len(_subscribers) : _subscribers[k].id = id
  /\ _subscribers' = SelectSeq(_subscribers, LAMBDA s: s.id # id)
  /\ last' = "unsubscribe"
  /\ UNCHANGED <<loggerVars, impl, cmVars, ccVars, activeDrawing, svgLines, svgTemp, probe, pc, _events,
                 delivered, dialogWired, heap, _state, _nextSubscriberId, notified>>

\* The initialState objects the state manager is constructed with, the root
\* at address 1: {}, { host: 1, cards: {} } and { host: 1, cards: { 1: 1 } }.
InitialStates ==
  { <<EmptyObject>>,
    << [EmptyObject EXCEPT !["host"] = Num(1), !["cards"] = Ref(2)], EmptyObject >>,
    << [EmptyObject EXCEPT !["host"] = Num(1), !["cards"] = Ref(2)],
       [EmptyObject EXCEPT !["1"] = Num(1)] >> }

\* A state manager of its own: new StateManager(initialState), no page.
InitState ==
  /\ impl = CC
  /\ dom = <<>>
  /\ _dots = <<>>
  /\ connections = <<>>
  /\ cards = {}
  /\ storedLayout = NoLayout
  /\ _lastConnectionUpdateTime = 0
  /\ dragged = 0
  /\ endpoints = <<>>
  /\ lines = <<>>
  /\ lineCounter = 0
  /\ activeDrawing = NoDrawingCC
  /\ svgLines = <<>>
  /\ svgTemp = 0
  /\ last = "init"
  /\ probe = NoProbe
  /\ pc = "running"
  /\ _events = <<>>
  /\ delivered = <<>>
  /\ dialogWired = FALSE
  /\ InitLogger
  /\ \E initialState \in InitialStates : heap = initialState
  /\ _state = 1
  /\ _subscribers = <<>>
  /\ _nextSubscriberId = 1
  /\ notified = <<>>

NextState ==
  \/ \E path \in StatePaths : \E value \in heldValues : callSetState(path, value)
  \/ \E path \in StatePaths : \E object \in NewObjects : callSetStateNew(path, object)
  \/ \E path \in StatePaths : callSubscribe(path)
  \/ \E id \in 1..MaxSubscriberId : callUnsubscribe(id)

SpecState == InitState /\ [][NextState]_vars

\* The path short is the path long or an ancestor of it ('' is an ancestor of
\* every path).
IsPrefix(short, long) == Len(short) <= Len(long) /\ SubSeq(long, 1, Len(short)) = short

\* How often the callback of the subscription id is in a list of calls.
Calls(list, id) == Cardinality({ k \in 1..Len(list) : list[k] = id })

\* C34: when a setState call changes the value at its path, the callback of
\* each subscription on that path, on an ancestor of it or on '' is called
\* exactly once, and no callback of a subscription on a path that is neither
\* the changed path, an ancestor nor a descendant of it is called.
C34_EachSubscriberOnce ==
  [][ last' \in {"setState", "setState:same"}
      /\ getState(heap', _state', probe'.path) # getState(heap, _state, probe'.path) =>
        \A k \in 1..Len(_subscribers) :
          /\ IsPrefix(_subscribers[k].path, probe'.path) =>
               Calls(notified', _subscribers[k].id) = 1
          /\ ~IsPrefix(_subscribers[k].path, probe'.path)
             /\ ~IsPrefix(probe'.path, _subscribers[k].path) =>
               Calls(notified', _subscribers[k].id) = 0 ]_vars

C36_NoObjectMutated ==
  [][ last' \in {"setState", "setState:same"} =>
        /\ Len(heap') >= Len(heap)
        /\ \A a \in 1..Len(heap) : heap'[a] = heap[a]
        /\ _state' # _state /\ probe'.path # <<>> =>
             \A n \in 0..(Len(probe'.path) - 1) :
               /\ isObject(getState(heap', _state', SubSeq(probe'.path, 1, n)))
               /\ getState(heap', _state', SubSeq(probe'.path, 1, n)).v > Len(heap)
               /\ \A key \in Keys \ {probe'.path[n + 1]} :
                    heap'[getState(heap', _state', SubSeq(probe'.path, 1, n)).v][key]
                      = IF isObject(getState(heap, _state, SubSeq(probe'.path, 1, n)))
                        THEN heap[getState(heap, _state, SubSeq(probe'.path, 1, n)).v][key]
                        ELSE Undefined ]_vars

\* 'cards.1' was set in a state that held an object at 'cards': the state has
\* a new root and a new object at 'cards', and the old ones are still there.
C36_Witness ==
  /\ last = "setState"
  /\ probe.path = <<"cards", "1">>
  /\ probe.value = Num(2)
  /\ _state > 1
  /\ isObject(heap[1]["cards"])
  /\ getState(heap, _state, <<"cards">>) # heap[1]["cards"]
  /\ heap[_state]["host"] = Num(1)

\* ---------------------------------------------------------------------------
\* The event bus on its own: subscribers come and go, then one event is
\* emitted.
\* ---------------------------------------------------------------------------

\* The most callbacks the subscribers put on one event before the emit.
MaxCallbacks == 2

Events == {"card:dragstart", "dom:initialized"}

emitted == last \in {"emit", "emit:throws"}

\* eventBus.on(event, callback).
callOn(event, callback) ==
  /\ ~emitted
  /\ event \in DOMAIN _events => Len(_events[event]) < MaxCallbacks
  /\ _events' = on(_events, event, callback)
  /\ last' = "on"
  /\ UNCHANGED <<loggerVars, impl, cmVars, ccVars, activeDrawing, svgLines, svgTemp, probe, pc, delivered,
                 dialogWired, stateVars>>

\* eventBus.off(event, callback).
callOff(event, callback) ==
  /\ ~emitted
  /\ event \in DOMAIN _events
  /\ _events' = off(_events, event, callback)
  /\ last' = "off"
  /\ UNCHANGED <<loggerVars, impl, cmVars, ccVars, activeDrawing, svgLines, svgTemp, probe, pc, delivered,
                 dialogWired, stateVars>>

\* eventBus.emit(event, data) by a caller that notes whether the call threw.
callEmit(event) ==
  /\ ~emitted
  /\ _events' = emit(_events, event).events
  /\ delivered' = delivered \o emit(_events, event).delivered
  /\ probe' = [called |-> TRUE, event |-> event]
  /\ last' = IF emit(_events, event).uncaught THEN "emit:throws" ELSE "emit"
  /\ UNCHANGED <<loggerVars, impl, cmVars, ccVars, activeDrawing, svgLines, svgTemp, pc, dialogWired,
                 stateVars>>

InitEventBus ==
  /\ impl = CC
  /\ dom = <<>>
  /\ _dots = <<>>
  /\ connections = <<>>
  /\ cards = {}
  /\ storedLayout = NoLayout
  /\ _lastConnectionUpdateTime = 0
  /\ dragged = 0
  /\ endpoints = <<>>
  /\ lines = <<>>
  /\ lineCounter = 0
  /\ activeDrawing = NoDrawingCC
  /\ svgLines = <<>>
  /\ svgTemp = 0
  /\ last = "init"
  /\ probe = NoProbe
  /\ pc = "running"
  /\ _events = <<>>
  /\ delivered = <<>>
  /\ dialogWired = FALSE
  /\ InitLogger
  /\ InitStateManager

NextEventBus ==
  \/ \E event \in Events : \E callback \in Callbacks : callOn(event, callback)
  \/ \E event \in Events : \E callback \in Callbacks : callOff(event, callback)
  \/ \E event \in Events : callEmit(event)

SpecEventBus == InitEventBus /\ [][NextEventBus]_vars

\* The callbacks the event has when the emit begins, in the order of their
\* registration.
registered(event) == IF event \in DOMAIN _events THEN _events[event] ELSE <<>>

\* C37: an emit calls the callbacks the event had when the emit began, each
\* of them and no other, in the order of their registration, whatever a
\* callback does (throw, subscribe, unsubscribe), and no error of a callback
\* reaches the caller of emit.
C37_EmitCallsEveryHandler ==
  [][ last' \in {"emit", "emit:throws"} =>
        /\ last' = "emit"
        /\ delivered' = delivered \o registered(probe'.event) ]_vars

\* A callback that throws was registered before another one, and the emit
\* has called both.
C37_Witness ==
  /\ last = "emit"
  /\ probe.event = "card:dragstart"
  /\ delivered = <<"thrower", "plain">>

\* ---------------------------------------------------------------------------
\* The logger of layout.ts with its default configuration: messages are
\* logged, the clock advances, and flushBuckets runs from its interval timer.
\* ---------------------------------------------------------------------------

\* The most log calls of a session that pass the level filter.
MaxMessages == 4

\* The clock stops at MaxDateNow; the last message is logged a bucket
\* interval before, so that a flush after the interval can still come.
MaxDateNow == 3000

\* getEffectiveLevel(): no namespace filter and no namespace level.
getEffectiveLevel(namespace) == globalLevel

\* Logger.buckets.get(key): the position of the bucket of the key, 0 for none.
RECURSIVE bucketsGetFrom(_, _, _)
bucketsGetFrom(bs, key, i) ==
  IF i > Len(bs) THEN 0
  ELSE IF bs[i].key = key THEN i
  ELSE bucketsGetFrom(bs, key, i + 1)

bucketsGet(bs, key) == bucketsGetFrom(bs, key, 1)

\* Logger.buckets.set(key, bucket): the bucket of a key the Map holds is
\* replaced where it is, that of a new key comes last.
bucketsSet(bs, key, bucket) ==
  IF bucketsGet(bs, key) # 0 THEN [bs EXCEPT ![bucketsGet(bs, key)] = bucket]
  ELSE Append(bs, bucket)

\* bucket && (now - bucket.lastTime) < Logger.config.bucketInterval.
isRecent(bs, key, now) ==
  /\ bucketsGet(bs, key) # 0
  /\ now - bs[bucketsGet(bs, key)].lastTime < bucketInterval

\* checkBucketing(level, message, data) of the logger of namespace.
checkBucketing(bs, namespace, level, message, now) ==
  IF ~enableBucketing \/ level >= ERROR THEN [isBucketed |-> FALSE, buckets |-> bs]
  ELSE IF isRecent(bs, bucketKey(namespace, message), now)
  THEN [isBucketed |-> TRUE,
        buckets |-> [bs EXCEPT ![bucketsGet(bs, bucketKey(namespace, message))] =
                       [@ EXCEPT !.count = @ + 1, !.lastTime = now]]]
  ELSE [isBucketed |-> FALSE,
        buckets |-> bucketsSet(bs, bucketKey(namespace, message),
                      [key |-> bucketKey(namespace, message), count |-> 1, level |-> level,
                       lastMessage |-> message, lastTime |-> now])]

\* storeLogEntry(level, message, data): the entry is pushed and the oldest
\* one shifted out beyond maxLogEntries.
storeLogEntry(history, entry) ==
  IF Len(history) + 1 > maxLogEntries THEN Tail(Append(history, entry))
  ELSE Append(history, entry)

\* The log calls so far that passed the level filter.
RECURSIVE plainEntries(_, _)
plainEntries(history, i) ==
  IF i > Len(history) THEN 0
  ELSE (IF history[i].repeated = 0 THEN 1 ELSE 0) + plainEntries(history, i + 1)

RECURSIVE sumOver(_, _)
sumOver(f, keys) ==
  IF keys = {} THEN 0
  ELSE LET key == CHOOSE k \in keys : TRUE IN f[key] + sumOver(f, keys \ {key})

logCalls == plainEntries(logHistory, 1) + sumOver(suppressed, BucketKeys)

\* logger.debug / warn / error(message): Logger.log(level, message).
log(namespace, level, message) ==
  /\ logCalls < MaxMessages
  /\ dateNow + bucketInterval <= MaxDateNow
  /\ IF level < getEffectiveLevel(namespace)
     THEN UNCHANGED <<buckets, logHistory, suppressed>>
     ELSE LET checked == checkBucketing(buckets, namespace, level, message, dateNow) IN
            /\ buckets' = checked.buckets
            /\ IF checked.isBucketed
               THEN /\ suppressed' = [suppressed EXCEPT ![bucketKey(namespace, message)] = @ + 1]
                    /\ UNCHANGED logHistory
               ELSE /\ logHistory' = storeLogEntry(logHistory,
                                       [level |-> level, namespace |-> namespace,
                                        message |-> message, repeated |-> 0])
                    /\ UNCHANGED suppressed
  /\ last' = "log"
  /\ UNCHANGED <<impl, cmVars, ccVars, activeDrawing, svgLines, svgTemp, probe, pc, _events,
                 delivered, dialogWired, stateVars, dateNow>>

\* Logger.buckets.forEach of flushBuckets from bucket i on: kept are the
\* buckets the Map still holds, history the log history.
RECURSIVE flushFrom(_, _, _, _, _)
flushFrom(bs, kept, history, now, i) ==
  IF i > Len(bs) THEN [buckets |-> kept, logHistory |-> history]
  ELSE IF now - bs[i].lastTime < bucketInterval
  THEN flushFrom(bs, Append(kept, bs[i]), history, now, i + 1)
  ELSE IF bs[i].count <= 1 THEN flushFrom(bs, kept, history, now, i + 1)
  ELSE IF bs[i].level < getEffectiveLevel(bs[i].key[1]) THEN flushFrom(bs, kept, history, now, i + 1)
  ELSE flushFrom(bs, kept,
                 storeLogEntry(history, [level |-> bs[i].level, namespace |-> bs[i].key[1],
                                         message |-> bs[i].lastMessage, repeated |-> bs[i].count]),
                 now, i + 1)

\* Logger.flushBuckets(), from setInterval, visibilitychange or beforeunload.
flushBuckets ==
  /\ buckets' = flushFrom(buckets, <<>>, logHistory, dateNow, 1).buckets
  /\ logHistory' = flushFrom(buckets, <<>>, logHistory, dateNow, 1).logHistory
  /\ last' = "flushBuckets"
  /\ UNCHANGED <<impl, cmVars, ccVars, activeDrawing, svgLines, svgTemp, probe, pc, _events,
                 delivered, dialogWired, stateVars, dateNow, suppressed>>

\* Half a bucket interval passes.
tick ==
  /\ dateNow < MaxDateNow
  /\ dateNow' = dateNow + bucketInterval \div 2
  /\ last' = "tick"
  /\ UNCHANGED <<impl, cmVars, ccVars, activeDrawing, svgLines, svgTemp, probe, pc, _events,
                 delivered, dialogWired, stateVars, buckets, logHistory, suppressed>>

InitLog ==
  /\ impl = CC
  /\ dom = <<>>
  /\ _dots = <<>>
  /\ connections = <<>>
  /\ cards = {}
  /\ storedLayout = NoLayout
  /\ _lastConnectionUpdateTime = 0
  /\ dragged = 0
  /\ endpoints = <<>>
  /\ lines = <<>>
  /\ lineCounter = 0
  /\ activeDrawing = NoDrawingCC
  /\ svgLines = <<>>
  /\ svgTemp = 0
  /\ last = "init"
  /\ probe = NoProbe
  /\ InitCore

NextLog ==
  \/ \E namespace \in Namespaces : \E level \in {DEBUG, WARN, ERROR} :
       \E message \in Messages : log(namespace, level, message)
  \/ flushBuckets
  \/ tick

SpecLog == InitLog /\ [][NextLog]_vars

\* The timer of flushBuckets keeps firing and time keeps passing.
SpecLogLive == SpecLog /\ WF_vars(flushBuckets) /\ WF_vars(tick)

\* The suppressed occurrences of a key the flushed summaries account for: a
\* summary '(repeated N times)' stands for the message put out and N - 1
\* suppressed repeats.
RECURSIVE summarised(_, _, _)
summarised(history, key, i) ==
  IF i > Len(history) THEN 0
  ELSE (IF history[i].repeated > 0 /\ bucketKey(history[i].namespace, history[i].message) = key
        THEN history[i].repeated - 1 ELSE 0) + summarised(history, key, i + 1)

\* C38: with flushBuckets running again and again, every occurrence of a
\* message that was suppressed as a repeat is in the end accounted for by a
\* flushed '(repeated N times)' summary of its bucket.
C38_SuppressedAreSummarised ==
  \A key \in BucketKeys : \A n \in 1..MaxMessages :
    (suppressed[key] >= n) ~> (summarised(logHistory, key, 1) >= n)

============================================================================
